---- MODULE Spec2Model ----
(***************************************************************************)
(* Model of the trading core of FUHI12342/ai-agents (package trader):      *)
(*   - paper_engine.simulate_ma_cross / simulate_strategy (candle replay), *)
(*   - run_live_trade.main with CCXTBroker.place_order_limit_safe and the  *)
(*     exchange it talks to.                                               *)
(* Floats are modelled as exact rationals <<numerator, denominator>>.      *)
(***************************************************************************)
EXTENDS Integers, Sequences, FiniteSets, TLC

(***************************************************************************)
(* Bounds of the model                                                     *)
(***************************************************************************)
MaxLen == 4            \* longest candle history replayed by simulate_ma_cross
MaxLenStrategy == 3    \* longest candle history replayed by simulate_strategy
MaxLenTs == 4          \* longest history with arbitrary timestamps
MaxTs == 3             \* timestamps of the arbitrary-timestamp histories

(***************************************************************************)
(* Exact arithmetic standing for Python floats                             *)
(***************************************************************************)
None == <<>>

Abs(n) == IF n < 0 THEN -n ELSE n

RECURSIVE GCD(_, _)
GCD(a, b) == IF b = 0 THEN a ELSE GCD(b, a % b)

R(n, d) ==
    LET s == IF d < 0 THEN -1 ELSE 1
        g == GCD(Abs(n), Abs(d))
    IN  <<(s * n) \div g, (s * d) \div g>>

RInt(n) == <<n, 1>>
RAdd(a, b) == R(a[1] * b[2] + b[1] * a[2], a[2] * b[2])
RSub(a, b) == R(a[1] * b[2] - b[1] * a[2], a[2] * b[2])
RMul(a, b) ==
    LET g == GCD(Abs(a[1]), b[2])
        h == GCD(Abs(b[1]), a[2])
    IN  R((a[1] \div g) * (b[1] \div h), (a[2] \div h) * (b[2] \div g))
RDiv(a, b) == RMul(a, R(b[2], b[1]))
RLt(a, b) == a[1] * b[2] < b[1] * a[2]
RLe(a, b) == a[1] * b[2] <= b[1] * a[2]
RZero == RInt(0)
ROne == RInt(1)
RMax(a, b) == IF RLt(a, b) THEN b ELSE a
RMin(a, b) == IF RLt(b, a) THEN b ELSE a

VARIABLES
    \* ---- paper_engine: one call of simulate_ma_cross / simulate_strategy
    hist,          \* the symbol's whole candle history (the data file)
    cfg,           \* keyword arguments of the call
    ohlcv,         \* the candles passed to the current call
    state,         \* PaperState
    idx,           \* position of the for loop in ohlcv (1-based)
    short_q, long_q, short_sum, long_sum,
    new_trades, equity_curve,
    callNo,        \* 1 = first run, 2 = run resumed from the persisted state
    persisted,     \* what the first run was given and returned
    resume,        \* candles given to the second run: "none" | "full" | "suffix"
    simPc          \* "loop" | "returned" | "done" | "off"

simVars == <<hist, cfg, ohlcv, state, idx, short_q, long_q, short_sum,
             long_sum, new_trades, equity_curve, callNo, persisted, resume,
             simPc>>

VARIABLES
    \* ---- run_live_trade.main: one run
    config,        \* TraderConfig: trader_mode, dry_run, is_live_capable
    kill_switch,   \* the KILL_SWITCH file exists
    pc,            \* position of main (and of place_order_limit_safe)
    sym,           \* index of the symbol of the for loop (1-based)
    has_summary,   \* the local `summary` has been assigned
    target_position, action, amount, current_pos, order_placed,
    risk_ok,       \* what check_risk_limits returned: "none" | "allowed" | "denied"
    \* ---- CCXTBroker.place_order_limit_safe / _retry_request
    attempt,       \* `for attempt in range(max_retry + 1)`
    rtry,          \* `for attempt in range(self.config.retry_max + 1)`
    polls,         \* fetch_order polls of the current order
    order_id,      \* id of the order being waited for / returned
    \* ---- the exchange (PaperBroker state in paper mode)
    exch,          \* orders the exchange accepted, by id
    init_pos,      \* base position before the run
    \* ---- Ledger files
    ledger_orders, ledger_trades, snapshots,
    \* ---- what the run has done so far
    pre_reconcile, \* "none" | "ok" | "failed"
    broker,        \* "none" | "paper" | "ccxt"
    broker_called, \* a broker method was called by the run
    faults,        \* broker calls that raised so far in the run
    auth_failed,   \* a broker call raised an Auth or Unknown kind of error
    mutated_under_kill, \* an order-mutating call was issued with KILL_SWITCH present
    mutated_after_fatal \* an order-mutating call was issued after auth_failed

polsVars == <<attempt, rtry, polls, order_id>>
cycleVars == <<target_position, action, amount, current_pos, order_placed,
               risk_ok>>
ledgerVars == <<ledger_orders, ledger_trades, snapshots>>

liveVars == <<config, kill_switch, pc, sym, has_summary, cycleVars, polsVars,
              exch, init_pos, ledgerVars, pre_reconcile, broker, broker_called,
              faults, auth_failed, mutated_under_kill, mutated_after_fatal>>

VARIABLES
    \* ---- CCXTBroker._retry_request: one call
    rr_config,      \* config.retry_max, config.retry_base_sec
    rr_attempt,     \* `for attempt in range(self.config.retry_max + 1)`
    rr_trace,       \* outcome of each invocation of func so far
    rr_sleeps,      \* argument of each time.sleep so far
    last_exception,
    rr_result,      \* "ok" when func returned, else the exception raised
    rr_pc           \* "call" | "sleep" | "returned" | "raised" | "off"

retryVars == <<rr_config, rr_attempt, rr_trace, rr_sleeps, last_exception,
               rr_result, rr_pc>>

VARIABLES
    \* ---- risk_guard.check_risk_limits: one call
    rg_config,      \* the limits of TraderConfig
    rg_ledger,      \* balance snapshots and recent trades of the Ledger files
    rg_broker,      \* PaperBroker: state.cash_quote, state.pos_base, ticker_cache
    rg_now,         \* time.time() of the call
    rg_action, rg_amount,
    rg_result,      \* the returned (allowed, reason)
    rg_pc           \* "ready" | "returned" | "off"

guardVars == <<rg_config, rg_ledger, rg_broker, rg_now, rg_action, rg_amount,
               rg_result, rg_pc>>

VARIABLES
    \* ---- reconcile_live: one run of the module
    rc_config,      \* load_config()
    rc_ledger,      \* trade_id of the rows get_recent_trades(days=1) returns
    rc_exchange,    \* id of the trades fetch_my_trades(symbol, limit=10) returns
    rc_raised,      \* what the broker calls of lines 50-55 raise, or None
    rc_result,      \* the result written to reconcile_latest.json, exit code
    rc_pc           \* "import" | "main" | "done" | "crashed" | "off"

reconcileVars == <<rc_config, rc_ledger, rc_exchange, rc_raised, rc_result,
                   rc_pc>>

VARIABLES
    \* ---- ledger.py: the three CSV files and the callers of one Ledger
    lf_files,       \* per file: whether it exists, and its lines
    lf_writer,      \* per caller: position in _append_csv and its locals
    lf_calls,       \* record_* calls started so far
    lf_returned,    \* per file: record_* calls that returned
    lf_read,        \* what the last get_recent_trades / get_daily_pnl read
    lf_n            \* number of callers that run concurrently

ledgerFileVars == <<lf_files, lf_writer, lf_calls, lf_returned, lf_read, lf_n>>

VARIABLES
    \* ---- strategies.registry.resolve_strategy, then simulate_strategy
    rs_request,     \* the strategy_id asked for
    rs_volume,      \* what the DataFrame holds as volume
    rs_strategy,    \* the Strategy instance resolve_strategy returned
    rs_candles,     \* candles simulate_strategy has processed
    rs_trades,      \* new_trades of simulate_strategy
    rs_pc           \* "resolve" | "simulate" | "off"

resolveVars == <<rs_request, rs_volume, rs_strategy, rs_candles, rs_trades,
                 rs_pc>>

VARIABLES
    \* ---- run_paper_sim_yahoo.main: one symbol of one run
    ys_raw,         \* st["symbols"][sym] as loaded from the state file
    ys_max_date,    \* max_date_ms, the latest timestamp of the data
    ys_state,       \* the PaperState `state`
    ys_warnings,    \* the WARNING lines of summary_lines
    ys_sim_input,   \* the state passed to simulate_ma_cross_yahoo
    ys_persisted,   \* st["symbols"][sym] as handed to save_state
    ys_pc           \* "load" | "check" | "simulate" | "persist" | "done" | "off"

yahooVars == <<ys_raw, ys_max_date, ys_state, ys_warnings, ys_sim_input,
               ys_persisted, ys_pc>>

VARIABLES
    \* ---- save_state / PaperState.save: one write of the state file
    sv_old,         \* the state the file held before, or None
    sv_new,         \* the state being saved
    sv_file,        \* the state file: whether it exists, and its content
    sv_pc           \* "open" | "write" | "close" | "saved" | "interrupted" | "off"

saveVars == <<sv_old, sv_new, sv_file, sv_pc>>

VARIABLES
    \* ---- alert.send_alert_once: a sequence of calls
    al_reports_dir, \* whether trader.config binds REPORTS_DIR
    al_day,         \* the calendar day, time.strftime('%Y%m%d')
    al_flags,       \* the days whose alert_sent_<day>.flag file exists
    al_sent,        \* per day: e-mails delivered
    al_calls,       \* calls made so far
    al_last         \* the last call: its inputs and what it did

alertVars == <<al_reports_dir, al_day, al_flags, al_sent, al_calls, al_last>>

VARIABLES
    \* ---- CCXTBroker: one instance and the calls made on it
    bk_time_diff_loaded, \* self.time_diff_loaded
    bk_log               \* the requests the instance sent to the exchange

brokerVars == <<bk_time_diff_loaded, bk_log>>

VARIABLES
    \* ---- TraderConfig: one construction, then a read of is_live_armed
    cf_args,        \* keyword arguments of TraderConfig(...)
    cf_env,         \* the environment variables __post_init__ reads
    cf_config,      \* the instance after __post_init__, or None
    cf_armed        \* what config.is_live_armed returned, or None

configVars == <<cf_args, cf_env, cf_config, cf_armed>>

VARIABLES
    \* ---- strategies.ma_cross.calculate_ma_cross_signal: one call
    sg_ohlcv,       \* the candles passed
    sg_params,      \* ma_short, ma_long
    sg_result       \* the tuple returned, or None before the call

signalVars == <<sg_ohlcv, sg_params, sg_result>>

VARIABLES
    \* ---- PaperBroker: one instance and the create_order calls made on it
    pb_state,       \* self.state: cash_quote, pos_base, trades_total
    pb_file,        \* the state file: None, or the state last saved
    pb_ticker,      \* ticker_cache[symbol]: bid, ask
    pb_last,        \* the last call: arguments, outcome, state before it
    pb_calls        \* create_order calls made so far

paperVars == <<pb_state, pb_file, pb_ticker, pb_last, pb_calls>>

VARIABLES
    \* ---- run_paper_sim_yahoo.main over several runs, one symbol
    hh_data,        \* the candles of the symbol's data file
    hh_state_file,  \* the symbol state in the state file, None: no file yet
    hh_history,     \* the rows of paper_yahoo_trades_history.csv
    hh_latest,      \* the rows of paper_yahoo_trades_latest.csv
    hh_mem,         \* st["symbols"][sym] of the running process
    hh_rows,        \* latest_rows of the running process
    hh_pc,          \* "idle", "simulate", "write" (at line 275), "save"
    hh_runs         \* runs started so far

historyVars == <<hh_data, hh_state_file, hh_history, hh_latest, hh_mem,
                 hh_rows, hh_pc, hh_runs>>

extVars == <<brokerVars, configVars, signalVars, paperVars, historyVars>>

\* what the actions of one part leave alone
brokerRest == <<configVars, signalVars, paperVars, historyVars>>
configRest == <<brokerVars, signalVars, paperVars, historyVars>>
signalRest == <<brokerVars, configVars, paperVars, historyVars>>
paperRest == <<brokerVars, configVars, signalVars, historyVars>>
historyRest == <<brokerVars, configVars, signalVars, paperVars>>

coreOpsVars == <<reconcileVars, ledgerFileVars, resolveVars, yahooVars,
                 saveVars, alertVars>>

opsVars == <<coreOpsVars, extVars>>

pureVars == <<retryVars, guardVars, opsVars>>

vars == <<simVars, liveVars, pureVars>>

\* no call of _retry_request is part of the behaviour
RetryOff ==
    /\ rr_config = None /\ rr_attempt = 0 /\ rr_trace = <<>>
    /\ rr_sleeps = <<>> /\ last_exception = None /\ rr_result = None
    /\ rr_pc = "off"

\* no call of check_risk_limits is part of the behaviour
GuardOff ==
    /\ rg_config = None /\ rg_ledger = None /\ rg_broker = None
    /\ rg_now = 0 /\ rg_action = "none" /\ rg_amount = 0
    /\ rg_result = None /\ rg_pc = "off"

\* reconcile_live is not part of the behaviour
ReconcileOff ==
    /\ rc_config = None /\ rc_ledger = {} /\ rc_exchange = {}
    /\ rc_raised = None /\ rc_result = None /\ rc_pc = "off"

\* no Ledger call is part of the behaviour
LedgerOff ==
    /\ lf_files = None /\ lf_writer = None /\ lf_calls = 0
    /\ lf_returned = None /\ lf_read = None /\ lf_n = 0

\* no strategy is resolved in the behaviour
ResolveOff ==
    /\ rs_request = "none" /\ rs_volume = "none" /\ rs_strategy = None
    /\ rs_candles = 0 /\ rs_trades = <<>> /\ rs_pc = "off"

\* run_paper_sim_yahoo is not part of the behaviour
YahooOff ==
    /\ ys_raw = None /\ ys_max_date = 0 /\ ys_state = None
    /\ ys_warnings = <<>> /\ ys_sim_input = None /\ ys_persisted = None
    /\ ys_pc = "off"

\* no state file is written in the behaviour
SaveOff ==
    /\ sv_old = None /\ sv_new = None /\ sv_file = None /\ sv_pc = "off"

\* no alert is part of the behaviour
AlertOff ==
    /\ al_reports_dir = FALSE /\ al_day = 0 /\ al_flags = {}
    /\ al_sent = None /\ al_calls = 0 /\ al_last = None

BrokerOff == bk_time_diff_loaded = FALSE /\ bk_log = <<>>

ConfigOff ==
    cf_args = None /\ cf_env = None /\ cf_config = None /\ cf_armed = None

SignalOff ==
    sg_ohlcv = <<>> /\ sg_params = None /\ sg_result = None

PaperOff ==
    pb_state = None /\ pb_file = None /\ pb_ticker = None /\ pb_last = None
    /\ pb_calls = 0

HistoryOff ==
    /\ hh_data = <<>> /\ hh_state_file = None /\ hh_history = <<>>
    /\ hh_latest = <<>> /\ hh_mem = None /\ hh_rows = <<>>
    /\ hh_pc = "off" /\ hh_runs = 0

ExtOff == BrokerOff /\ ConfigOff /\ SignalOff /\ PaperOff /\ HistoryOff

BrokerRestOff == ConfigOff /\ SignalOff /\ PaperOff /\ HistoryOff
ConfigRestOff == BrokerOff /\ SignalOff /\ PaperOff /\ HistoryOff
SignalRestOff == BrokerOff /\ ConfigOff /\ PaperOff /\ HistoryOff
PaperRestOff == BrokerOff /\ ConfigOff /\ SignalOff /\ HistoryOff
HistoryRestOff == BrokerOff /\ ConfigOff /\ SignalOff /\ PaperOff

CoreOpsOff ==
    ReconcileOff /\ LedgerOff /\ ResolveOff /\ YahooOff /\ SaveOff /\ AlertOff

OpsOff == CoreOpsOff /\ ExtOff

\* the run is not part of the behaviour
LiveOff ==
    /\ config = None /\ kill_switch = FALSE /\ pc = "off" /\ sym = 0
    /\ has_summary = FALSE
    /\ target_position = None /\ action = "none" /\ amount = 0
    /\ current_pos = 0 /\ order_placed = FALSE /\ risk_ok = "none"
    /\ attempt = 0 /\ rtry = 0 /\ polls = 0 /\ order_id = 0
    /\ exch = <<>> /\ init_pos = 0
    /\ ledger_orders = <<>> /\ ledger_trades = {} /\ snapshots = 0
    /\ pre_reconcile = "none" /\ broker = "none" /\ broker_called = FALSE
    /\ faults = 0 /\ auth_failed = FALSE
    /\ mutated_under_kill = FALSE /\ mutated_after_fatal = FALSE

(***************************************************************************)
(* paper_engine.py                                                         *)
(***************************************************************************)
InitialCash == 16

\* PaperState(cash_quote, pos_base) with the dataclass defaults
FreshState ==
    [cash_quote |-> RInt(InitialCash), pos_base |-> RZero, last_ts |-> None,
     prev_diff |-> None, peak_equity_quote |-> None,
     max_drawdown_pct |-> RZero, trades_total |-> 0]

_slip_factor(slippage_bps) == RDiv(RInt(slippage_bps), RInt(10000))

\* risk_pct = max(0.0, min(float(risk_pct), 1.0))
ClampRisk(risk_pct) == RMax(RZero, RMin(risk_pct, ROne))
\* fee_rate = max(0.0, float(fee_rate))
ClampFee(fee_rate) == RMax(RZero, fee_rate)

mark_equity(st, close) == RAdd(st.cash_quote, RMul(st.pos_base, RInt(close)))

\* `if state.last_ts is not None and ts <= state.last_ts: continue`
SkipStrict(st, ts) == st.last_ts # None /\ ts < st.last_ts[1]
SkipNever(st, ts) == FALSE
Skip(st, ts) == st.last_ts # None /\ ts <= st.last_ts[1]

\* BUY branch: allocate risk_pct of the current cash
BuyKeepsFee(st, c, k, reason) ==
    LET invest == RMul(st.cash_quote, ClampRisk(k.risk_pct))
        exec_price == RMul(RInt(c.close), RAdd(ROne, _slip_factor(k.slippage_bps)))
        qty == IF RLt(RZero, exec_price) THEN RDiv(invest, exec_price) ELSE RZero
        notional == RMul(qty, exec_price)
        fee == RMul(notional, ClampFee(k.fee_rate))
        st2 == [st EXCEPT !.cash_quote = RSub(@, notional),
                          !.pos_base = RAdd(@, qty),
                          !.trades_total = @ + 1]
    IN  [state |-> st2,
         trade |-> [time_ms |-> c.ts, side |-> "BUY", price |-> exec_price,
                    qty |-> qty, notional_quote |-> notional, fee_quote |-> fee,
                    cash_quote_after |-> st2.cash_quote,
                    pos_base_after |-> st2.pos_base, reason |-> reason]]

Buy(st, c, k, reason) ==
    LET invest == RMul(st.cash_quote, ClampRisk(k.risk_pct))
        exec_price == RMul(RInt(c.close), RAdd(ROne, _slip_factor(k.slippage_bps)))
        qty == IF RLt(RZero, exec_price) THEN RDiv(invest, exec_price) ELSE RZero
        notional == RMul(qty, exec_price)
        fee == RMul(notional, ClampFee(k.fee_rate))
        st2 == [st EXCEPT !.cash_quote = RSub(@, RAdd(notional, fee)),
                          !.pos_base = RAdd(@, qty),
                          !.trades_total = @ + 1]
    IN  [state |-> st2,
         trade |-> [time_ms |-> c.ts, side |-> "BUY", price |-> exec_price,
                    qty |-> qty, notional_quote |-> notional, fee_quote |-> fee,
                    cash_quote_after |-> st2.cash_quote,
                    pos_base_after |-> st2.pos_base, reason |-> reason]]

\* a SELL that closes only half of the position
SellHalf(st, c, k, reason) ==
    LET qty == RMul(st.pos_base, R(1, 2))
        exec_price == RMul(RInt(c.close), RSub(ROne, _slip_factor(k.slippage_bps)))
        notional == RMul(qty, exec_price)
        fee == RMul(notional, ClampFee(k.fee_rate))
        st2 == [st EXCEPT !.pos_base = RSub(@, qty),
                          !.cash_quote = RAdd(@, RSub(notional, fee)),
                          !.trades_total = @ + 1]
    IN  [state |-> st2,
         trade |-> [time_ms |-> c.ts, side |-> "SELL", price |-> exec_price,
                    qty |-> qty, notional_quote |-> notional, fee_quote |-> fee,
                    cash_quote_after |-> st2.cash_quote,
                    pos_base_after |-> st2.pos_base, reason |-> reason]]

\* SELL branch: close the whole position
Sell(st, c, k, reason) ==
    LET qty == st.pos_base
        exec_price == RMul(RInt(c.close), RSub(ROne, _slip_factor(k.slippage_bps)))
        notional == RMul(qty, exec_price)
        fee == RMul(notional, ClampFee(k.fee_rate))
        st2 == [st EXCEPT !.pos_base = RZero,
                          !.cash_quote = RAdd(@, RSub(notional, fee)),
                          !.trades_total = @ + 1]
    IN  [state |-> st2,
         trade |-> [time_ms |-> c.ts, side |-> "SELL", price |-> exec_price,
                    qty |-> qty, notional_quote |-> notional, fee_quote |-> fee,
                    cash_quote_after |-> st2.cash_quote,
                    pos_base_after |-> st2.pos_base, reason |-> reason]]

\* `if state.peak_equity_quote is None or eq > state.peak_equity_quote`
TrackPeakLast(st, eq) == [st EXCEPT !.peak_equity_quote = eq]
TrackPeak(st, eq) ==
    IF st.peak_equity_quote = None \/ RLt(st.peak_equity_quote, eq)
    THEN [st EXCEPT !.peak_equity_quote = eq]
    ELSE st

\* `if state.peak_equity_quote and state.peak_equity_quote > 0: dd = ...`
TrackDrawdown(st, eq) ==
    IF st.peak_equity_quote # None /\ RLt(RZero, st.peak_equity_quote)
    THEN LET dd == RMul(RSub(RDiv(eq, st.peak_equity_quote), ROne), RInt(100))
         IN  IF RLt(dd, st.max_drawdown_pct)
             THEN [st EXCEPT !.max_drawdown_pct = dd]
             ELSE st
    ELSE st

\* the rolling windows of simulate_ma_cross: append, add, evict the oldest
WindowPush(q, s, close, n) ==
    LET q1 == Append(q, close)
        s1 == s + close
    IN  IF Len(q1) > n THEN [q |-> Tail(q1), s |-> s1 - Head(q1)]
                       ELSE [q |-> q1, s |-> s1]

WindowMa(w, n) == IF Len(w.q) = n THEN R(w.s, n) ELSE None

\* a cross-up that needs the short MA strictly below the long MA before
crossed_up_strict(prev_diff, diff) ==
    RLt(prev_diff, RZero) /\ RLt(RZero, diff)

\* paper_engine.py line 103: prev_diff <= 0.0 and diff > 0.0
crossed_up(prev_diff, diff) ==
    RLe(prev_diff, RZero) /\ RLt(RZero, diff)

\* paper_engine.py line 104: prev_diff >= 0.0 and diff < 0.0
crossed_down(prev_diff, diff) ==
    RLe(RZero, prev_diff) /\ RLt(diff, RZero)

\* The loop body of simulate_ma_cross after the windows are updated (lines
\* 80-172): f1 is the frame with the new windows, diff is short_ma - long_ma,
\* or None while a window is not full.
MaDecide(f1, c, k, diff) ==
    LET st == f1.state
    IN  IF Skip(st, c.ts) THEN f1
        ELSE IF diff = None
        THEN [f1 EXCEPT !.state.last_ts = <<c.ts>>]
        ELSE
        IF st.prev_diff = None
        THEN LET st1 == [st EXCEPT !.prev_diff = diff, !.last_ts = <<c.ts>>]
                 eq == mark_equity(st1, c.close)
             IN  [f1 EXCEPT !.state = TrackPeak(st1, eq),
                            !.equity_curve = Append(@, <<c.ts, eq>>)]
        ELSE
        LET doBuy == crossed_up(st.prev_diff, diff)
                        /\ RLt(RZero, st.cash_quote)
                        /\ RLt(RZero, ClampRisk(k.risk_pct))
            doSell == ~doBuy /\ crossed_down(st.prev_diff, diff)
                         /\ RLt(RZero, st.pos_base)
            res == IF doBuy THEN Buy(st, c, k, "ma_cross_up_buy")
                   ELSE IF doSell THEN Sell(st, c, k, "ma_cross_down_sell")
                   ELSE [state |-> st, trade |-> None]
            eq == mark_equity(res.state, c.close)
            st3 == TrackDrawdown(TrackPeak(res.state, eq), eq)
        IN  [f1 EXCEPT !.state = [st3 EXCEPT !.prev_diff = diff,
                                             !.last_ts = <<c.ts>>],
                       !.new_trades = IF res.trade = None THEN @
                                      ELSE Append(@, res.trade),
                       !.equity_curve = Append(@, <<c.ts, eq>>)]

\* One iteration of the for loop of simulate_ma_cross on candle c.
\* f is the frame of the call: state, windows, new_trades, equity_curve.
MaStep(f, c, k) ==
    LET sw == WindowPush(f.short_q, f.short_sum, c.close, k.ma_short)
        lw == WindowPush(f.long_q, f.long_sum, c.close, k.ma_long)
        short_ma == WindowMa(sw, k.ma_short)
        long_ma == WindowMa(lw, k.ma_long)
        f1 == [f EXCEPT !.short_q = sw.q, !.short_sum = sw.s,
                        !.long_q = lw.q, !.long_sum = lw.s]
    IN  MaDecide(f1, c, k, IF short_ma = None \/ long_ma = None
                           THEN None ELSE RSub(short_ma, long_ma))

\* One iteration of the for loop of simulate_strategy on candle c; the signal
\* strategy.compute returns for the data up to c is the candle's field sig.
StrategyStep(f, c, k) ==
    LET st == f.state IN
    IF Skip(st, c.ts) THEN f
    ELSE
    LET doBuy == c.sig = 1 /\ RLt(RZero, st.cash_quote)
                    /\ RLt(RZero, ClampRisk(k.risk_pct))
        doSell == ~doBuy /\ c.sig = -1 /\ RLt(RZero, st.pos_base)
        res == IF doBuy THEN Buy(st, c, k, "strategy_buy")
               ELSE IF doSell THEN Sell(st, c, k, "strategy_sell")
               ELSE [state |-> st, trade |-> None]
        eq == mark_equity(res.state, c.close)
        st3 == TrackDrawdown(TrackPeak(res.state, eq), eq)
    IN  [f EXCEPT !.state = [st3 EXCEPT !.last_ts = <<c.ts>>],
                  !.new_trades = IF res.trade = None THEN @
                                 ELSE Append(@, res.trade),
                  !.equity_curve = Append(@, <<c.ts, eq>>)]

EngineStep(f, c, k) ==
    IF k.engine = "ma" THEN MaStep(f, c, k) ELSE StrategyStep(f, c, k)

\* the locals a call starts with
NewFrame(st) ==
    [state |-> st, short_q |-> <<>>, short_sum |-> 0, long_q |-> <<>>,
     long_sum |-> 0, new_trades |-> <<>>, equity_curve |-> <<>>]

\* a whole call: the loop over the candles, from the first
RECURSIVE RunLoop(_, _, _, _)
RunLoop(f, cs, i, k) ==
    IF i > Len(cs) THEN f ELSE RunLoop(EngineStep(f, cs[i], k), cs, i + 1, k)

Simulate(cs, st, k) == RunLoop(NewFrame(st), cs, 1, k)

(***************************************************************************)
(* Inputs of the replay: candle histories and keyword arguments            *)
(***************************************************************************)
Closes == {1, 2, 3}
StrategyCloses == {1, 2}
Signals == {-1, 0, 1}
Half == R(1, 2)

\* (risk_pct, fee_rate, slippage_bps)
ParamSets ==
    { <<ROne, RZero, 0>>, <<ROne, Half, 0>>, <<Half, RZero, 5000>>,
      <<Half, Half, 5000>>, <<RZero, RZero, 0>> }

MaWindows == { <<1, 2>>, <<2, 3>> }

MaCfgs ==
    { [engine |-> "ma", ma_short |-> w[1], ma_long |-> w[2],
       risk_pct |-> p[1], fee_rate |-> p[2], slippage_bps |-> p[3]] :
      w \in MaWindows, p \in ParamSets }

StrategyCfgs ==
    { [engine |-> "strategy", ma_short |-> 0, ma_long |-> 0,
       risk_pct |-> p[1], fee_rate |-> p[2], slippage_bps |-> p[3]] :
      p \in ParamSets }

SeqsUpTo(S, n) == UNION { [1..m -> S] : m \in 0..n }

\* candles number `from`+1.. with strictly increasing timestamps
MaCandles(from, n) ==
    { [j \in 1..Len(cl) |-> [ts |-> from + j, close |-> cl[j], sig |-> 0]] :
      cl \in SeqsUpTo(Closes, n) }

StrategyCandles(from, n) ==
    { [j \in 1..Len(cl) |->
          [ts |-> from + j, close |-> cl[j][1], sig |-> cl[j][2]]] :
      cl \in SeqsUpTo(StrategyCloses \X Signals, n) }

\* candles whose timestamps may repeat or go backwards
AnyTsCandles(n) ==
    { [j \in 1..Len(cl) |-> [ts |-> cl[j][1], close |-> cl[j][2], sig |-> 0]] :
      cl \in SeqsUpTo((1..MaxTs) \X StrategyCloses, n) }

Increasing(cs) == \A j \in 1..(Len(cs) - 1) : cs[j].ts < cs[j + 1].ts

\* the candles with ts > T of a history (everything when T is None)
After(cs, T) == SelectSeq(cs, LAMBDA c : T = None \/ c.ts > T[1])

Frame ==
    [state |-> state, short_q |-> short_q, short_sum |-> short_sum,
     long_q |-> long_q, long_sum |-> long_sum, new_trades |-> new_trades,
     equity_curve |-> equity_curve]

SetFrame(f) ==
    /\ state' = f.state
    /\ short_q' = f.short_q /\ short_sum' = f.short_sum
    /\ long_q' = f.long_q /\ long_sum' = f.long_sum
    /\ new_trades' = f.new_trades
    /\ equity_curve' = f.equity_curve

\* a call of simulate_ma_cross / simulate_strategy starts on candles cs
StartCall(cs, st) ==
    /\ ohlcv' = cs
    /\ idx' = 1
    /\ SetFrame(NewFrame(st))
    /\ simPc' = "loop"

InitCall(h, k) ==
    /\ hist = h /\ cfg = k /\ ohlcv = h
    /\ state = FreshState /\ idx = 1
    /\ short_q = <<>> /\ long_q = <<>> /\ short_sum = 0 /\ long_sum = 0
    /\ new_trades = <<>> /\ equity_curve = <<>>
    /\ callNo = 1 /\ persisted = None /\ resume = "none"
    /\ simPc = "loop"
    /\ LiveOff /\ RetryOff /\ GuardOff /\ OpsOff

InitSim ==
    \/ \E k \in MaCfgs : \E h \in MaCandles(0, MaxLen) : InitCall(h, k)
    \/ \E k \in StrategyCfgs : \E h \in StrategyCandles(0, MaxLenStrategy) :
          InitCall(h, k)

TsCfg ==
    [engine |-> "ma", ma_short |-> 1, ma_long |-> 2,
     risk_pct |-> ROne, fee_rate |-> RZero, slippage_bps |-> 0]

InitTs == \E h \in AnyTsCandles(MaxLenTs) : InitCall(h, TsCfg)

\* the body of the for loop, once
SimStep ==
    /\ simPc = "loop" /\ idx <= Len(ohlcv)
    /\ SetFrame(EngineStep(Frame, ohlcv[idx], cfg))
    /\ idx' = idx + 1
    /\ UNCHANGED <<hist, cfg, ohlcv, callNo, persisted, resume, simPc, liveVars, pureVars>>

\* `return state, new_trades, equity_curve`; the caller persists the state
SimReturn ==
    /\ simPc = "loop" /\ idx > Len(ohlcv)
    /\ simPc' = IF callNo = 1 THEN "returned" ELSE "done"
    /\ persisted' = IF callNo = 1
                     THEN [ohlcv |-> ohlcv, state |-> state,
                           new_trades |-> new_trades,
                           equity_curve |-> equity_curve]
                     ELSE persisted
    /\ UNCHANGED <<hist, cfg, ohlcv, state, idx, short_q, long_q, short_sum,
                   long_sum, new_trades, equity_curve, callNo, resume, liveVars, pureVars>>

\* the candles the data file gained since the first run
NewCandles ==
    IF cfg.engine = "ma" THEN MaCandles(Len(hist), MaxLen - Len(hist))
                         ELSE StrategyCandles(Len(hist), MaxLenStrategy - Len(hist))

\* next run: the persisted state and the whole history, as run_paper_sim_yahoo
ResumeFull(ext) ==
    /\ simPc = "returned"
    /\ hist' = hist \o ext
    /\ StartCall(hist \o ext, state)
    /\ callNo' = 2 /\ resume' = "full"
    /\ UNCHANGED <<cfg, persisted, liveVars, pureVars>>

\* next run: the persisted state and only the candles with ts > last_ts
ResumeSuffix(ext) ==
    /\ simPc = "returned"
    /\ hist' = hist \o ext
    /\ StartCall(After(hist \o ext, state.last_ts), state)
    /\ callNo' = 2 /\ resume' = "suffix"
    /\ UNCHANGED <<cfg, persisted, liveVars, pureVars>>

NextSim ==
    \/ SimStep
    \/ SimReturn
    \/ \E ext \in NewCandles : ResumeFull(ext)
    \/ \E ext \in NewCandles : ResumeSuffix(ext)

NextTs ==
    \/ SimStep
    \/ SimReturn
    \/ \E ext \in AnyTsCandles(MaxLenTs - Len(hist)) : ResumeFull(ext)

Spec == InitSim /\ [][NextSim]_vars
SpecTs == InitTs /\ [][NextTs]_vars

(***************************************************************************)
(* run_live_trade.py, brokers/ccxt_live.py, brokers/paper.py               *)
(***************************************************************************)
NSymbols == 2          \* symbols of config.trader_symbols
BuyQty == 2            \* base quantity of a buy decision, in fill units
MaxPolls == 1          \* fetch_order polls that fit in max_wait_sec
retry_max == 1         \* config.retry_max of the run
max_retry == 1         \* max_retry of place_order_limit_safe
MaxFaults == 1         \* broker calls that raise in one run

Modes == {"paper", "testnet", "live"}

\* TraderConfig.is_live_capable
is_live_capable(c) ==
    /\ c.trader_mode \in {"testnet", "live"}
    /\ c.trader_live_confirm_ok
    /\ c.api_keys_set
    /\ ~c.dry_run

\* armed in testnet mode as well (the modes of is_live_capable)
is_live_armed_any_exchange(c) ==
    /\ c.trader_mode \in {"testnet", "live"}
    /\ ~c.dry_run
    /\ c.trader_live_confirm_ok

\* TraderConfig.is_live_armed
is_live_armed(c) ==
    /\ c.trader_mode = "live"
    /\ ~c.dry_run
    /\ c.trader_live_confirm_ok

Configs ==
    [trader_mode : Modes, dry_run : BOOLEAN,
     trader_live_confirm_ok : BOOLEAN, api_keys_set : BOOLEAN]

RECURSIVE FilledOf(_, _, _)
FilledOf(os, i, side) ==
    IF i > Len(os) THEN 0
    ELSE (IF os[i].side = side THEN os[i].filled ELSE 0)
            + FilledOf(os, i + 1, side)

\* balance['total']['BTC'] as the exchange (or the PaperBroker state) has it
Position ==
    init_pos + FilledOf(exch, 1, "buy") - FilledOf(exch, 1, "sell")

NewOrder(side, qty, filled, status) ==
    [cycle |-> sym, side |-> side, amount |-> qty, filled |-> filled,
     status |-> status]

\* the state when TraderConfig is loaded and main starts
SimOff ==
    /\ hist = <<>> /\ cfg = None /\ ohlcv = <<>> /\ state = None /\ idx = 0
    /\ short_q = <<>> /\ long_q = <<>> /\ short_sum = 0 /\ long_sum = 0
    /\ new_trades = <<>> /\ equity_curve = <<>>
    /\ callNo = 0 /\ persisted = None /\ resume = "none" /\ simPc = "off"

InitLive ==
    /\ config \in Configs
    /\ kill_switch \in BOOLEAN
    /\ init_pos \in {0, BuyQty}
    /\ pc = "start" /\ sym = 0 /\ has_summary = FALSE
    /\ target_position = None /\ action = "none" /\ amount = 0
    /\ current_pos = 0 /\ order_placed = FALSE /\ risk_ok = "none"
    /\ attempt = 0 /\ rtry = 0 /\ polls = 0 /\ order_id = 0
    /\ exch = <<>>
    /\ ledger_orders = <<>> /\ ledger_trades = {} /\ snapshots = 0
    /\ pre_reconcile = "none" /\ broker = "none" /\ broker_called = FALSE
    /\ faults = 0 /\ auth_failed = FALSE
    /\ mutated_under_kill = FALSE /\ mutated_after_fatal = FALSE
    /\ SimOff /\ RetryOff /\ GuardOff /\ OpsOff

\* a broker call of this step raises (failed) or none does; the exception
\* may be of any kind, the code never looks at it
Fault(failed) ==
    /\ failed => faults < MaxFaults
    /\ faults' = IF failed THEN faults + 1 ELSE faults
    /\ auth_failed' \in IF failed THEN {auth_failed, TRUE} ELSE {auth_failed}

\* an order-mutating broker call is issued now
IssueMutatingCall ==
    /\ mutated_under_kill' = (mutated_under_kill \/ kill_switch)
    /\ mutated_after_fatal' = (mutated_after_fatal \/ auth_failed)

\* `continue` / end of the loop body: next symbol, fresh locals
NextSymbol ==
    /\ sym' = sym + 1
    /\ pc' = "load"
    /\ target_position' = None /\ action' = "none" /\ amount' = 0
    /\ current_pos' = 0 /\ order_placed' = FALSE /\ risk_ok' = "none"
    /\ attempt' = 0 /\ rtry' = 0 /\ polls' = 0 /\ order_id' = 0

\* main, lines 22-31: load the config, check KILL_SWITCH once
Start ==
    /\ pc = "start"
    /\ pc' = IF kill_switch THEN "exited"
             ELSE IF config.trader_mode \in {"testnet", "live"} THEN "reconcile"
             ELSE "create_broker"
    /\ UNCHANGED <<simVars, pureVars, faults, auth_failed, config, kill_switch, sym, has_summary, cycleVars,
                   polsVars, exch, init_pos, ledgerVars, pre_reconcile, broker,
                   broker_called, mutated_under_kill,
                   mutated_after_fatal>>

\* main, lines 31-44: the child process `python -m trader.reconcile_live`
\* returned; ok is `result.returncode == 0`. On a failure send_alert_once
\* (alert.py:20) imports REPORTS_DIR from config, which defines no such name:
\* the ImportError ends the run before line 41 writes the KILL_SWITCH file.
PreRunReconcile(ok) ==
    /\ pc = "reconcile"
    /\ pre_reconcile' = IF ok THEN "ok" ELSE "failed"
    /\ pc' = IF ok THEN "create_broker" ELSE "crashed"
    /\ UNCHANGED <<simVars, pureVars, faults, auth_failed, config, kill_switch, sym, has_summary,
                   cycleVars, polsVars, exch, init_pos, ledgerVars, broker,
                   broker_called, mutated_under_kill,
                   mutated_after_fatal>>

\* main, lines 46-56 with brokers.create_broker
CreateBroker ==
    /\ pc = "create_broker"
    /\ IF config.trader_mode = "paper"
       THEN broker' = "paper" /\ pc' = "load" /\ sym' = 1
       ELSE IF is_live_capable(config)
       THEN broker' = "ccxt" /\ pc' = "load" /\ sym' = 1
       ELSE broker' = broker /\ pc' = "crashed" /\ sym' = sym
    /\ UNCHANGED <<simVars, pureVars, faults, auth_failed, config, kill_switch, has_summary, cycleVars,
                   polsVars, exch, init_pos, ledgerVars, pre_reconcile,
                   broker_called, mutated_under_kill,
                   mutated_after_fatal>>

\* main, lines 59-89: load the candles and compute the signal; outcome is
\* "skip" (load failed or fewer than 100 candles) or the target position
LoadAndSignal(outcome) ==
    /\ pc = "load" /\ sym <= NSymbols
    /\ IF outcome = "skip"
       THEN NextSymbol
       ELSE /\ target_position' = outcome
            /\ pc' = "observe"
            /\ UNCHANGED <<sym, action, amount, current_pos, order_placed,
                           risk_ok, polsVars>>
    /\ UNCHANGED <<simVars, pureVars, faults, auth_failed, config, kill_switch, has_summary, exch, init_pos,
                   ledgerVars, pre_reconcile, broker, broker_called,
                   mutated_under_kill,
                   mutated_after_fatal>>

ActionFor(target, pos) ==
    IF target = <<1>> /\ pos = 0 THEN "buy"
    ELSE IF target = <<0>> /\ pos > 0 THEN "sell"
    ELSE "none"

\* main, lines 91-129: fetch_balance, fetch_ticker, record_balance_snapshot,
\* determine the action, fetch_ticker again when there is one.
\* fail names the broker call that raised: "none" | "before" | "after"
\* the snapshot (only the CCXT broker raises).
Observe(fail) ==
    /\ pc = "observe"
    /\ Fault(fail # "none")
    /\ fail # "none" => broker = "ccxt"
    /\ fail = "after" => ActionFor(target_position, Position) # "none"
    /\ broker_called' = TRUE
    /\ snapshots' = IF fail = "before" THEN snapshots ELSE snapshots + 1
    /\ IF fail = "none"
       THEN /\ current_pos' = Position
            /\ action' = ActionFor(target_position, Position)
            /\ amount' = IF action' = "buy" THEN BuyQty
                         ELSE IF action' = "sell" THEN Position ELSE 0
            /\ pc' = "risk"
       ELSE /\ pc' = "crashed"
            /\ UNCHANGED <<current_pos, action, amount>>
    /\ UNCHANGED <<simVars, pureVars, config, kill_switch, sym, has_summary,
                   target_position, order_placed, risk_ok, polsVars, exch,
                   init_pos, ledger_orders, ledger_trades, pre_reconcile, broker,
                   mutated_under_kill,
                   mutated_after_fatal>>

\* main, lines 131-133: check_risk_limits returned allowed / denied, or one
\* of its broker calls raised (CCXT broker only)
RiskGuardIgnored(result) ==
    /\ pc = "risk"
    /\ Fault(result = "raise")
    /\ result = "raise" => broker = "ccxt"
    /\ broker_called' = TRUE
    /\ risk_ok' = IF result = "ok" THEN "allowed"
                  ELSE IF result = "deny" THEN "denied" ELSE risk_ok
    /\ pc' = IF result = "raise" THEN "crashed" ELSE "armed"
    /\ UNCHANGED <<simVars, pureVars, config, kill_switch, sym, has_summary,
                   target_position, action, amount, current_pos, order_placed,
                   polsVars, exch, init_pos, ledgerVars, pre_reconcile, broker,
                   mutated_under_kill, mutated_after_fatal>>

RiskGuard(result) ==
    /\ pc = "risk"
    /\ Fault(result = "raise")
    /\ result = "raise" => broker = "ccxt"
    /\ broker_called' = TRUE
    /\ risk_ok' = IF result = "ok" THEN "allowed"
                  ELSE IF result = "deny" THEN "denied" ELSE risk_ok
    /\ pc' = IF result = "ok" THEN "armed"
             ELSE IF result = "deny" THEN "blocked_risk" ELSE "crashed"
    /\ UNCHANGED <<simVars, pureVars, config, kill_switch, sym, has_summary,
                   target_position, action, amount, current_pos, order_placed,
                   polsVars, exch, init_pos, ledgerVars, pre_reconcile, broker,
                   mutated_under_kill, mutated_after_fatal>>

\* main, lines 133-170: the guard denied. In testnet and live mode
\* send_alert_once comes first and ends the run with the ImportError of
\* alert.py:20; in paper mode the BLOCKED_RISK row is recorded and the loop
\* goes on with the next symbol.
BlockedRisk ==
    /\ pc = "blocked_risk"
    /\ IF config.trader_mode \in {"testnet", "live"}
       THEN /\ pc' = "crashed"
            /\ UNCHANGED <<ledger_orders, has_summary, sym, cycleVars, polsVars>>
       ELSE /\ ledger_orders' = Append(ledger_orders,
                                  [cycle |-> sym, order_id |-> 0,
                                   status |-> "BLOCKED_RISK"])
            /\ has_summary' = TRUE
            /\ NextSymbol
    /\ UNCHANGED <<simVars, pureVars, faults, auth_failed, config, kill_switch, exch,
                   init_pos, ledger_trades, snapshots, pre_reconcile, broker,
                   broker_called, mutated_under_kill, mutated_after_fatal>>

\* main, line 172: `config.trader_mode == 'live' and not config.is_live_armed()`
\* is_live_armed is a property, so the call raises TypeError in live mode
ArmedCheck ==
    /\ pc = "armed"
    /\ pc' = IF config.trader_mode = "live" THEN "crashed" ELSE "execute"
    /\ UNCHANGED <<simVars, pureVars, faults, auth_failed, config, kill_switch, sym, has_summary, cycleVars,
                   polsVars, exch, init_pos, ledgerVars, pre_reconcile, broker,
                   broker_called, mutated_under_kill,
                   mutated_after_fatal>>

\* main, lines 212-215: no action, nothing to execute
ExecuteNoAction ==
    /\ pc = "execute" /\ action = "none"
    /\ pc' = "final_balance"
    /\ UNCHANGED <<simVars, pureVars, faults, auth_failed, config, kill_switch, sym, has_summary, cycleVars,
                   polsVars, exch, init_pos, ledgerVars, pre_reconcile, broker,
                   broker_called, mutated_under_kill,
                   mutated_after_fatal>>

\* main, lines 216-217 and 260-262: fetch_ticker raised inside the try
ExecuteTickerFails ==
    /\ pc = "execute" /\ action # "none" /\ broker = "ccxt"
    /\ Fault(TRUE)
    /\ broker_called' = TRUE
    /\ pc' = "final_balance"
    /\ UNCHANGED <<simVars, pureVars, config, kill_switch, sym, has_summary, cycleVars,
                   polsVars, exch, init_pos, ledgerVars, pre_reconcile, broker,
                   mutated_under_kill,
                   mutated_after_fatal>>

\* a dry run that sends the planned order to the broker all the same
ExecuteDryRunPlaces ==
    /\ pc = "execute" /\ action # "none" /\ config.dry_run
    /\ broker_called' = TRUE
    /\ exch' = Append(exch, NewOrder(action, amount, amount, "closed"))
    /\ ledger_orders' = Append(ledger_orders,
                               [cycle |-> sym, order_id |-> 0, status |-> "DRY_RUN"])
    /\ pc' = "final_balance"
    /\ UNCHANGED <<simVars, pureVars, faults, auth_failed, config, kill_switch, sym, has_summary, cycleVars,
                   polsVars, init_pos, ledger_trades, snapshots,
                   pre_reconcile, broker, mutated_under_kill,
                   mutated_after_fatal>>

\* main, lines 231-246: DRY_RUN records the plan and places nothing
ExecuteDryRun ==
    /\ pc = "execute" /\ action # "none" /\ config.dry_run
    /\ broker_called' = TRUE
    /\ ledger_orders' = Append(ledger_orders,
                               [cycle |-> sym, order_id |-> 0, status |-> "DRY_RUN"])
    /\ pc' = "final_balance"
    /\ UNCHANGED <<simVars, pureVars, faults, auth_failed, config, kill_switch, sym, has_summary, cycleVars,
                   polsVars, exch, init_pos, ledger_trades, snapshots,
                   pre_reconcile, broker, mutated_under_kill,
                   mutated_after_fatal>>

\* main, lines 255-259 with PaperBroker.create_order: a market order, filled
\* at once and recorded
ExecutePaperOrder ==
    /\ pc = "execute" /\ action # "none" /\ ~config.dry_run
    /\ config.trader_mode = "paper"
    /\ broker_called' = TRUE
    /\ IssueMutatingCall
    /\ exch' = Append(exch, NewOrder(action, amount, amount, "closed"))
    /\ order_id' = Len(exch) + 1
    /\ ledger_orders' = Append(ledger_orders,
                               [cycle |-> sym, order_id |-> Len(exch) + 1,
                                status |-> "closed"])
    /\ order_placed' = TRUE
    /\ pc' = "final_balance"
    /\ UNCHANGED <<simVars, pureVars, faults, auth_failed, config, kill_switch, sym, has_summary,
                   target_position, action, amount, current_pos, risk_ok,
                   attempt, rtry, polls, init_pos, ledger_trades, snapshots, pre_reconcile,
                   broker>>

\* main, lines 248-252: enter CCXTBroker.place_order_limit_safe
ExecuteLimitSafe ==
    /\ pc = "execute" /\ action # "none" /\ ~config.dry_run
    /\ config.trader_mode \in {"testnet", "live"}
    /\ broker_called' = TRUE
    /\ pc' = "pols_book"
    /\ UNCHANGED <<simVars, pureVars, faults, auth_failed, config, kill_switch, sym, has_summary, cycleVars,
                   polsVars, exch, init_pos, ledgerVars, pre_reconcile, broker,
                   mutated_under_kill,
                   mutated_after_fatal>>

\* the except clause of the for loop of place_order_limit_safe: re-raise on
\* the last attempt (main's except then gives up the order), else go on with
\* the next attempt
PolsExcept ==
    IF attempt = max_retry
    THEN pc' = "final_balance" /\ attempt' = attempt /\ rtry' = 0
    ELSE pc' = "pols_create" /\ attempt' = attempt + 1 /\ rtry' = 0

\* _retry_request after a failed try: sleep and try again, or raise
RetryOrRaise ==
    IF rtry < retry_max
    THEN rtry' = rtry + 1 /\ UNCHANGED <<pc, attempt>>
    ELSE PolsExcept

\* place_order_limit_safe, lines 108-116: the first order book; a failure
\* here is outside the try and goes to main's except
PolsBook(ok) ==
    /\ pc = "pols_book"
    /\ Fault(~ok)
    /\ pc' = IF ok THEN "pols_create" ELSE "final_balance"
    /\ attempt' = 0 /\ rtry' = 0
    /\ UNCHANGED <<simVars, pureVars, config, kill_switch, sym, has_summary, cycleVars,
                   polls, order_id, exch, init_pos, ledgerVars, pre_reconcile,
                   broker, broker_called, mutated_under_kill,
                   mutated_after_fatal>>

\* place_order_limit_safe, line 121: one try of exchange.create_order inside
\* _retry_request. outcome: "ok" | "error" (the exchange did not take the
\* order) | "accepted_error" (it took the order, the reply was lost)
PolsCreate(outcome) ==
    /\ pc = "pols_create"
    /\ Fault(outcome # "ok")
    /\ IssueMutatingCall
    /\ exch' = IF outcome = "error" THEN exch
               ELSE Append(exch, NewOrder(action, amount, 0, "open"))
    /\ IF outcome = "ok"
       THEN /\ order_id' = Len(exch) + 1
            /\ polls' = 0 /\ rtry' = 0
            /\ pc' = "pols_poll"
            /\ UNCHANGED attempt
       ELSE /\ RetryOrRaise
            /\ UNCHANGED <<order_id, polls>>
    /\ UNCHANGED <<simVars, pureVars, config, kill_switch, sym, has_summary, cycleVars,
                   init_pos, ledgerVars, pre_reconcile, broker, broker_called>>

\* place_order_limit_safe, lines 125-130: one turn of the wait loop.
\* outcome: "poll" (fetch_order answered) | "raise" (fetch_order failed after
\* its retries) | "timeout" (max_wait_sec elapsed)
PolsPoll(outcome) ==
    /\ pc = "pols_poll"
    /\ Fault(outcome = "raise")
    /\ outcome = "timeout" => polls >= 1
    /\ outcome # "timeout" => polls < MaxPolls
    /\ IF outcome = "poll"
       THEN IF exch[order_id].status = "closed"
            THEN pc' = "record" /\ UNCHANGED <<attempt, rtry, polls>>
            ELSE polls' = polls + 1 /\ UNCHANGED <<pc, attempt, rtry>>
       ELSE IF outcome = "raise"
       THEN PolsExcept /\ UNCHANGED polls
       ELSE pc' = "pols_cancel" /\ rtry' = 0 /\ UNCHANGED <<attempt, polls>>
    /\ UNCHANGED <<simVars, pureVars, config, kill_switch, sym, has_summary, cycleVars,
                   order_id, exch, init_pos, ledgerVars, pre_reconcile, broker,
                   broker_called, mutated_under_kill,
                   mutated_after_fatal>>

\* place_order_limit_safe, line 133: one try of exchange.cancel_order inside
\* _retry_request. The exchange cancels an open order and refuses any other.
\* outcome: "ok" | "error" (request lost) | "done_error" (reply lost)
PolsCancel(outcome) ==
    /\ pc = "pols_cancel"
    /\ Fault(outcome \in {"error", "done_error"})
    /\ IssueMutatingCall
    /\ LET open == exch[order_id].status = "open"
           done == open /\ outcome \in {"ok", "done_error"}
       IN  /\ exch' = IF done THEN [exch EXCEPT ![order_id].status = "canceled"]
                      ELSE exch
           /\ IF open /\ outcome = "ok"
              THEN pc' = "pols_rebook" /\ rtry' = 0 /\ UNCHANGED attempt
              ELSE RetryOrRaise
    /\ UNCHANGED <<simVars, pureVars, config, kill_switch, sym, has_summary, cycleVars,
                   polls, order_id, init_pos, ledgerVars, pre_reconcile, broker,
                   broker_called>>

\* place_order_limit_safe, lines 136-150: reprice from a fresh order book,
\* then the next attempt, or `raise Exception("Order failed ...")` after the
\* last one; a fetch_order_book that raises goes the same way through the
\* except clause
PolsRebook ==
    /\ pc = "pols_rebook"
    /\ PolsExcept
    /\ UNCHANGED <<simVars, pureVars, faults, auth_failed, config, kill_switch, sym, has_summary, cycleVars,
                   polls, order_id, exch, init_pos, ledgerVars, pre_reconcile,
                   broker, broker_called, mutated_under_kill,
                   mutated_after_fatal>>

\* main, lines 257-259: record the order place_order_limit_safe returned
RecordOrder ==
    /\ pc = "record"
    /\ ledger_orders' = Append(ledger_orders,
                               [cycle |-> sym, order_id |-> order_id,
                                status |-> exch[order_id].status])
    /\ order_placed' = TRUE
    /\ pc' = "wait"
    /\ UNCHANGED <<simVars, pureVars, faults, auth_failed, config, kill_switch, sym, has_summary,
                   target_position, action, amount, current_pos, risk_ok,
                   polsVars, exch, init_pos, ledger_trades, snapshots, pre_reconcile, broker,
                   broker_called, mutated_under_kill,
                   mutated_after_fatal>>

\* main, lines 264-279: fetch_order, then record the trades of a closed order
\* or cancel an order that is not closed; ok = no broker call raised
WaitFills(ok) ==
    /\ pc = "wait"
    /\ Fault(~ok)
    /\ IF ~ok
       THEN UNCHANGED <<ledger_trades, exch, mutated_under_kill,
                   mutated_after_fatal>>
       ELSE IF exch[order_id].status = "closed"
       THEN /\ ledger_trades' = ledger_trades \cup {order_id}
            /\ UNCHANGED <<exch, mutated_under_kill,
                   mutated_after_fatal>>
       ELSE /\ IssueMutatingCall
            /\ exch' = IF exch[order_id].status = "open"
                       THEN [exch EXCEPT ![order_id].status = "canceled"]
                       ELSE exch
            /\ UNCHANGED ledger_trades
    /\ pc' = "final_balance"
    /\ UNCHANGED <<simVars, pureVars, config, kill_switch, sym, has_summary, cycleVars,
                   polsVars, init_pos, ledger_orders, snapshots, pre_reconcile,
                   broker, broker_called>>

\* main, lines 281-306: the final balance snapshot and the summary
FinalBalance(ok) ==
    /\ pc = "final_balance"
    /\ Fault(~ok)
    /\ ~ok => broker = "ccxt"
    /\ broker_called' = TRUE
    /\ IF ok
       THEN /\ snapshots' = snapshots + 1
            /\ has_summary' = TRUE
            /\ NextSymbol
       ELSE /\ pc' = "crashed"
            /\ UNCHANGED <<snapshots, has_summary, sym, cycleVars, polsVars>>
    /\ UNCHANGED <<simVars, pureVars, config, kill_switch, exch, init_pos, ledger_orders,
                   ledger_trades, pre_reconcile, broker, mutated_under_kill,
                   mutated_after_fatal>>

\* main, lines 308-340: post-run reconcile and the summary file; `summary` is
\* unbound when no symbol got as far as a summary
PostRun ==
    /\ pc = "load" /\ sym > NSymbols
    /\ pc' = IF has_summary THEN "done" ELSE "crashed"
    /\ UNCHANGED <<simVars, pureVars, faults, auth_failed, config, kill_switch, sym, has_summary, cycleVars,
                   polsVars, exch, init_pos, ledgerVars, pre_reconcile, broker,
                   broker_called, mutated_under_kill,
                   mutated_after_fatal>>

Running == pc \notin {"exited", "crashed", "done", "off"}

\* the exchange fills q units of an open order
ExchangeFill(i, q) ==
    /\ Running
    /\ i \in 1..Len(exch)
    /\ exch[i].status = "open"
    /\ q \in 1..(exch[i].amount - exch[i].filled)
    /\ exch[i].side = "sell" => q <= Position
    /\ exch' = [exch EXCEPT ![i].filled = @ + q,
                            ![i].status = IF exch[i].filled + q = exch[i].amount
                                          THEN "closed" ELSE "open"]
    /\ UNCHANGED <<simVars, pureVars, faults, auth_failed, config, kill_switch, pc, sym, has_summary,
                   cycleVars, polsVars, init_pos, ledgerVars, pre_reconcile,
                   broker, broker_called, mutated_under_kill,
                   mutated_after_fatal>>

\* the operator creates the KILL_SWITCH file while the run is under way
KillSwitchAppears ==
    /\ Running /\ ~kill_switch
    /\ kill_switch' = TRUE
    /\ UNCHANGED <<simVars, pureVars, faults, auth_failed, config, pc, sym, has_summary, cycleVars, polsVars,
                   exch, init_pos, ledgerVars, pre_reconcile, broker,
                   broker_called, mutated_under_kill,
                   mutated_after_fatal>>

NextLive ==
    \/ Start
    \/ \E ok \in BOOLEAN : PreRunReconcile(ok)
    \/ CreateBroker
    \/ \E o \in {"skip", None, <<0>>, <<1>>} : LoadAndSignal(o)
    \/ \E f \in {"none", "before", "after"} : Observe(f)
    \/ \E r \in {"ok", "deny", "raise"} : RiskGuard(r)
    \/ BlockedRisk
    \/ ArmedCheck
    \/ ExecuteNoAction
    \/ ExecuteTickerFails
    \/ ExecuteDryRun
    \/ ExecutePaperOrder
    \/ ExecuteLimitSafe
    \/ \E ok \in BOOLEAN : PolsBook(ok)
    \/ \E o \in {"ok", "error", "accepted_error"} : PolsCreate(o)
    \/ \E o \in {"poll", "raise", "timeout"} : PolsPoll(o)
    \/ \E o \in {"ok", "error", "done_error"} : PolsCancel(o)
    \/ PolsRebook
    \/ RecordOrder
    \/ \E ok \in BOOLEAN : WaitFills(ok)
    \/ \E ok \in BOOLEAN : FinalBalance(ok)
    \/ PostRun
    \/ \E i \in 1..Len(exch) : \E q \in 1..BuyQty : ExchangeFill(i, q)
    \/ KillSwitchAppears

SpecLive == InitLive /\ [][NextLive]_vars

(***************************************************************************)
(* brokers/ccxt_live.py: CCXTBroker._retry_request                         *)
(***************************************************************************)
MaxRetryMax == 2       \* largest config.retry_max of a call

\* the kinds of failure of an exchange call
ErrorKinds == {"Auth", "RateLimit", "Network", "ExchangeDown", "Unknown"}
Transient == {"RateLimit", "Network", "ExchangeDown"}

RECURSIVE Pow2(_)
Pow2(n) == IF n = 0 THEN 1 ELSE 2 * Pow2(n - 1)

\* wait_time of line 45
BackoffFlat(base, n) == base

Backoff(base, n) == base * Pow2(n)

InitRetry ==
    /\ rr_config \in [retry_max : 0..MaxRetryMax, retry_base_sec : {1, 3}]
    /\ rr_attempt = 0 /\ rr_trace = <<>> /\ rr_sleeps = <<>>
    /\ last_exception = None /\ rr_result = None
    /\ rr_pc = "call"
    /\ SimOff /\ LiveOff /\ GuardOff /\ OpsOff

\* lines 39-43 and 47: func is invoked once; outcome is "ok" or the kind of
\* exception it raises. After a failure of the last attempt the loop is over
\* and line 47 raises last_exception.
RetryCall(outcome) ==
    /\ rr_pc = "call"
    /\ rr_trace' = Append(rr_trace, outcome)
    /\ IF outcome = "ok"
       THEN /\ rr_result' = "ok" /\ rr_pc' = "returned"
            /\ UNCHANGED last_exception
       ELSE /\ last_exception' = outcome
            /\ IF rr_attempt < rr_config.retry_max
               THEN rr_pc' = "sleep" /\ UNCHANGED rr_result
               ELSE rr_pc' = "raised" /\ rr_result' = outcome
    /\ UNCHANGED <<simVars, liveVars, guardVars, opsVars, rr_config, rr_attempt,
                   rr_sleeps>>

\* lines 44-46: the backoff sleep, then the next turn of the loop
RetrySleep ==
    /\ rr_pc = "sleep"
    /\ rr_sleeps' = Append(rr_sleeps,
                           Backoff(rr_config.retry_base_sec, rr_attempt))
    /\ rr_attempt' = rr_attempt + 1
    /\ rr_pc' = "call"
    /\ UNCHANGED <<simVars, liveVars, guardVars, opsVars, rr_config, rr_trace,
                   last_exception, rr_result>>

NextRetry ==
    \/ \E o \in {"ok"} \cup ErrorKinds : RetryCall(o)
    \/ RetrySleep

SpecRetry == InitRetry /\ [][NextRetry]_vars

(***************************************************************************)
(* Properties of _retry_request                                            *)
(***************************************************************************)
\* C11: _retry_request invokes the wrapped call at most retry_max + 1 times,
\* makes no call after the first success and returns it, sleeps
\* retry_base_sec * 2^attempt between consecutive attempts and not after the
\* last one, and after the last failed attempt raises that last exception.
C11_RetryBounded ==
    LET n == Len(rr_trace)
    IN  /\ n <= rr_config.retry_max + 1
        /\ \A i \in 1..(n - 1) : rr_trace[i] # "ok"
        /\ \A i \in 1..Len(rr_sleeps) :
               rr_sleeps[i] = rr_config.retry_base_sec * Pow2(i - 1)
        /\ Len(rr_sleeps) = (IF rr_pc = "call" THEN n
                             ELSE IF n = 0 THEN 0 ELSE n - 1)
        /\ rr_pc = "returned" => (rr_trace[n] = "ok" /\ rr_result = "ok")
        /\ rr_pc = "raised" =>
               /\ n = rr_config.retry_max + 1
               /\ rr_trace[n] # "ok" /\ rr_result = rr_trace[n]

\* every attempt failed, with a sleep between each two, and the last
\* exception came out
C11_Witness ==
    /\ rr_pc = "raised" /\ rr_config.retry_max = 2
    /\ Len(rr_trace) = 3 /\ Len(rr_sleeps) = 2
    /\ rr_trace[2] # rr_trace[3]

\* C12: a call that fails with an Auth or Unknown kind of error is attempted
\* exactly once: its error is raised with no sleep and no second attempt.
C12_FatalKindsNotRetried ==
    (Len(rr_trace) >= 1 /\ rr_trace[1] \notin Transient \cup {"ok"}) =>
        /\ Len(rr_trace) = 1 /\ rr_sleeps = <<>>
        /\ rr_pc = "raised" /\ rr_result = rr_trace[1]

(***************************************************************************)
(* risk_guard.py: check_risk_limits, with Ledger.get_daily_pnl,            *)
(* Ledger.get_recent_trades and PaperBroker.fetch_ticker / fetch_balance   *)
(***************************************************************************)
MaxSnapshots == 2      \* rows of the balance snapshots file
MaxTrades == 3         \* rows of the trades file of the last day
MaxNow == 1            \* latest time at which the broker is looked at

\* PaperBroker.fetch_ticker: the default ticker of a symbol not yet cached
DefaultTicker(now) ==
    [timestamp |-> now, last |-> 100000, bid |-> 99990, ask |-> 100010]

\* what PaperBroker.fetch_ticker returns at time now
fetch_ticker(b, now) ==
    IF b.ticker_cache # None THEN b.ticker_cache[1] ELSE DefaultTicker(now)

\* the broker after that call: a symbol not yet cached is cached
AfterFetchTickerAlways(b, now) ==
    [b EXCEPT !.ticker_cache = <<DefaultTicker(now)>>]

AfterFetchTicker(b, now) ==
    IF b.ticker_cache # None THEN b
    ELSE [b EXCEPT !.ticker_cache = <<DefaultTicker(now)>>]

\* PaperBroker.fetch_balance: (free USDT, total BTC)
fetch_balance(b) == [free_USDT |-> b.cash_quote, total_BTC |-> b.pos_base]

\* Ledger.get_daily_pnl
get_daily_pnl(c, l) ==
    LET snaps == l.snapshots
        today_snapshots == SelectSeq(snaps, LAMBDA x : x.today)
        n == Len(today_snapshots)
    IN  IF snaps = <<>>
           \/ \A i \in 1..Len(snaps) :
                 snaps[i].equity_quote = 0 /\ snaps[i].equity_jpy = 0
        THEN RZero
        ELSE IF n < 2 THEN RZero
        ELSE IF c.loss_guard_ccy = "JPY"
        THEN RInt(today_snapshots[n].equity_jpy - today_snapshots[1].equity_jpy)
        ELSE RInt(today_snapshots[n].equity_quote
                    - today_snapshots[1].equity_quote)

\* check_risk_limits, line 21
loss_limit(c) ==
    IF c.loss_guard_ccy = "JPY" THEN RInt(c.max_daily_loss_jpy)
    ELSE RDiv(RInt(c.max_daily_loss_jpy), RInt(c.jpy_per_usdt))

\* line 22
DailyLossExceededAtLimit(c, l) ==
    RLe(get_daily_pnl(c, l), RSub(RZero, loss_limit(c)))

DailyLossExceeded(c, l) ==
    RLt(get_daily_pnl(c, l), RSub(RZero, loss_limit(c)))

\* lines 28-34: the notional the guard projects for a buy
notional_quote(b, t) ==
    LET price == RInt(t.last)
        potential_pos ==
            RAdd(RInt(fetch_balance(b).total_BTC),
                 RMul(RDiv(RInt(fetch_balance(b).free_USDT), price),
                      R(99, 100)))
    IN  RMul(potential_pos, price)

\* lines 38 and 42
PositionExceeded(c, b, t) ==
    \/ RLt(RInt(c.max_position_notional_quote), notional_quote(b, t))
    \/ RLt(RInt(c.max_position_notional_jpy),
           RMul(notional_quote(b, t), RInt(c.jpy_per_usdt)))

\* lines 47-51
SpreadTooWideAtLimit(c, t) ==
    /\ t.bid > 0 /\ t.ask > 0
    /\ RLe(RInt(c.max_spread_bps),
           RMul(RDiv(RInt(t.ask - t.bid), RInt(t.bid)), RInt(10000)))

SpreadTooWide(c, t) ==
    /\ t.bid > 0 /\ t.ask > 0
    /\ RLt(RInt(c.max_spread_bps),
           RMul(RDiv(RInt(t.ask - t.bid), RInt(t.bid)), RInt(10000)))

\* lines 59-66: the approximate pnl of a trade row
TradePnl(tr) ==
    IF tr.side = "sell" THEN tr.cost - tr.fee ELSE 0 - tr.cost - tr.fee

\* lines 57-70: losses counted from the latest of the last five trades back
\* to the first trade that is not a loss
RECURSIVE CountLosses(_, _, _)
CountLosses(ts, i, low) ==
    IF i < low THEN 0
    ELSE IF TradePnl(ts[i]) < 0 THEN 1 + CountLosses(ts, i - 1, low)
    ELSE 0

consec_losses(l) ==
    LET ts == l.trades
        low == IF Len(ts) > 5 THEN Len(ts) - 4 ELSE 1
    IN  CountLosses(ts, Len(ts), low)

\* check_risk_limits: the returned (allowed, reason)
check_risk_limits_spread_first(c, l, b, now, act) ==
    LET ticker == fetch_ticker(b, now)
    IN  IF DailyLossExceeded(c, l)
        THEN <<FALSE, "Daily loss limit exceeded">>
        ELSE IF SpreadTooWide(c, ticker)
        THEN <<FALSE, "Spread too wide">>
        ELSE IF act = "buy" /\ PositionExceeded(c, b, ticker)
        THEN <<FALSE, "Position size limit exceeded">>
        ELSE IF consec_losses(l) >= 3
        THEN <<FALSE, "Consecutive losses">>
        ELSE <<TRUE, "OK">>

check_risk_limits(c, l, b, now, act) ==
    LET ticker == fetch_ticker(b, now)
    IN  IF DailyLossExceeded(c, l)
        THEN <<FALSE, "Daily loss limit exceeded">>
        ELSE IF act = "buy" /\ PositionExceeded(c, b, ticker)
        THEN <<FALSE, "Position size limit exceeded">>
        ELSE IF SpreadTooWide(c, ticker)
        THEN <<FALSE, "Spread too wide">>
        ELSE IF consec_losses(l) >= 3
        THEN <<FALSE, "Consecutive losses">>
        ELSE <<TRUE, "OK">>

GuardConfigs ==
    [max_daily_loss_jpy : {4}, loss_guard_ccy : {"JPY", "USDT"},
     jpy_per_usdt : {2}, max_position_notional_quote : {4},
     max_position_notional_jpy : {6, 100}, max_spread_bps : {5000}]

SnapshotRows ==
    {[today |-> d, equity_quote |-> e[1], equity_jpy |-> e[2]] :
        d \in BOOLEAN, e \in {<<5, 10>>, <<3, 6>>, <<2, 5>>}}

TradeRows ==
    {[side |-> "sell", cost |-> 2, fee |-> 1],
     [side |-> "buy", cost |-> 2, fee |-> 1]}

Tickers ==
    {[timestamp |-> 0, last |-> 2, bid |-> 2, ask |-> a] : a \in {0, 3, 4}}

Brokers ==
    [cash_quote : {0, 4}, pos_base : {0, 2},
     ticker_cache : {None} \cup {<<t>> : t \in Tickers}]

InitGuard ==
    /\ rg_config \in GuardConfigs
    /\ rg_ledger \in [snapshots : SeqsUpTo(SnapshotRows, MaxSnapshots),
                       trades : SeqsUpTo(TradeRows, MaxTrades)]
    /\ rg_broker \in Brokers
    /\ rg_now = 0
    /\ \E call \in {<<"buy", 1>>, <<"buy", 4>>, <<"sell", 2>>, <<"none", 0>>} :
          rg_action = call[1] /\ rg_amount = call[2]
    /\ rg_result = None /\ rg_pc = "ready"
    /\ SimOff /\ LiveOff /\ RetryOff /\ OpsOff

\* one call of check_risk_limits. The daily-loss check returns before any
\* broker call; after it the broker's ticker is fetched at least once.
CheckRiskLimits ==
    /\ rg_pc = "ready"
    /\ rg_result' = check_risk_limits(rg_config, rg_ledger, rg_broker, rg_now,
                                      rg_action)
    /\ rg_broker' = IF DailyLossExceeded(rg_config, rg_ledger) THEN rg_broker
                    ELSE AfterFetchTicker(rg_broker, rg_now)
    /\ rg_pc' = "returned"
    /\ UNCHANGED <<simVars, liveVars, retryVars, opsVars, rg_config, rg_ledger, rg_now,
                   rg_action, rg_amount>>

NextGuard == CheckRiskLimits

SpecGuard == InitGuard /\ [][NextGuard]_vars

(***************************************************************************)
(* Properties of check_risk_limits                                         *)
(***************************************************************************)
Returned == rg_pc = "returned"
GuardTicker == fetch_ticker(rg_broker, rg_now)

\* the checks in the stated order, each taken by itself
ChecksFailing ==
    <<DailyLossExceeded(rg_config, rg_ledger),
      rg_action = "buy" /\ PositionExceeded(rg_config, rg_broker, GuardTicker),
      SpreadTooWide(rg_config, GuardTicker),
      consec_losses(rg_ledger) >= 3>>

CheckReasons ==
    <<"Daily loss limit exceeded", "Position size limit exceeded",
      "Spread too wide", "Consecutive losses">>

\* C14: the checks are evaluated in the order daily loss, position size
\* (buys only), spread, consecutive losses; the returned reason is that of
\* the earliest failing check, and (True, "OK") is returned only when none
\* fails.
C14_FirstFailureWins ==
    Returned =>
        IF \E i \in 1..4 : ChecksFailing[i]
        THEN LET first == CHOOSE i \in 1..4 :
                            /\ ChecksFailing[i]
                            /\ \A j \in 1..(i - 1) : ~ChecksFailing[j]
             IN  rg_result = <<FALSE, CheckReasons[first]>>
        ELSE rg_result = <<TRUE, "OK">>

\* position size, spread and consecutive losses all fail; position size wins
C14_Witness ==
    /\ Returned
    /\ ~ChecksFailing[1] /\ ChecksFailing[2] /\ ChecksFailing[3]
    /\ ChecksFailing[4]
    /\ rg_result = <<FALSE, "Position size limit exceeded">>

\* the notional of the position after a buy of rg_amount, at the current price
ResultingNotional == (rg_broker.pos_base + rg_amount) * GuardTicker.last

\* C15: for a buy of quantity amount the guard denies with a position-size
\* reason exactly when the resulting notional (current position plus amount,
\* at the current price) is strictly above the maximum in quote currency or
\* its guard-currency equivalent is above the guard-currency maximum.
C15_PositionLimitByAmount ==
    (Returned /\ rg_action = "buy"
        /\ rg_result[2] # "Daily loss limit exceeded") =>
        (rg_result = <<FALSE, "Position size limit exceeded">>
            <=> \/ ResultingNotional > rg_config.max_position_notional_quote
                \/ ResultingNotional * rg_config.jpy_per_usdt
                       > rg_config.max_position_notional_jpy)

\* the ledger's daily PnL, a whole number of guard-currency units here
DailyPnl == get_daily_pnl(rg_config, rg_ledger)[1]

\* daily PnL strictly below minus the limit, both in the guard currency
\* (pnl < -(limit_jpy / jpy_per_usdt) when the guard currency is not JPY)
BelowLossLimit ==
    IF rg_config.loss_guard_ccy = "JPY"
    THEN DailyPnl < 0 - rg_config.max_daily_loss_jpy
    ELSE DailyPnl * rg_config.jpy_per_usdt < 0 - rg_config.max_daily_loss_jpy

\* C16: the guard denies with "Daily loss limit" exactly when the ledger's
\* daily PnL in the guard currency is strictly below minus the daily-loss
\* limit in that currency; a PnL equal to minus the limit is not denied by
\* this check.
C16_DailyLossStrict ==
    Returned =>
        (rg_result = <<FALSE, "Daily loss limit exceeded">> <=> BelowLossLimit)

\* a daily PnL of exactly minus the limit (in USDT) passes the check
C16_Witness ==
    /\ Returned
    /\ rg_config.loss_guard_ccy = "USDT"
    /\ DailyPnl * rg_config.jpy_per_usdt = 0 - rg_config.max_daily_loss_jpy
    /\ rg_result[2] # "Daily loss limit exceeded"

\* C17: when the earlier checks pass, the guard denies with "Spread too wide"
\* exactly when (ask - bid) / bid * 10000 is strictly greater than
\* max_spread_bps; a spread equal to max_spread_bps is allowed.
C17_SpreadStrict ==
    (Returned /\ GuardTicker.bid > 0
        /\ rg_result[2] \notin {"Daily loss limit exceeded",
                                 "Position size limit exceeded"}) =>
        (rg_result = <<FALSE, "Spread too wide">>
            <=> (GuardTicker.ask - GuardTicker.bid) * 10000
                   > rg_config.max_spread_bps * GuardTicker.bid)

\* a spread of exactly max_spread_bps is let through
C17_Witness ==
    /\ Returned
    /\ (GuardTicker.ask - GuardTicker.bid) * 10000
          = rg_config.max_spread_bps * GuardTicker.bid
    /\ rg_result[2] \in {"OK", "Consecutive losses"}

\* what a caller sees of the broker at time t
Observable(b, t) ==
    [balance |-> fetch_balance(b), ticker |-> fetch_ticker(b, t)]

\* the same without the timestamp of the ticker
ObservablePrices(b, t) ==
    [balance |-> fetch_balance(b),
     last |-> fetch_ticker(b, t).last,
     bid |-> fetch_ticker(b, t).bid,
     ask |-> fetch_ticker(b, t).ask]

GuardResults ==
    {<<TRUE, "OK">>} \cup {<<FALSE, CheckReasons[i]>> : i \in 1..4}

\* C18: check_risk_limits is purely advisory: allowing or denying, it leaves
\* the ledger files and the broker's observable state (balances, position,
\* orders, ticker data) unchanged, and a denial is only the returned value.
C18_GuardChangesNothing ==
    [][(rg_pc = "ready" /\ rg_pc' = "returned") =>
          /\ rg_ledger' = rg_ledger
          /\ \A t \in rg_now..MaxNow :
                 Observable(rg_broker', t) = Observable(rg_broker, t)
          /\ rg_result' \in GuardResults]_vars

\* C18 as amended: the ledger files, the balances, the position and the
\* ticker prices are left unchanged and a denial is only the returned
\* value; the one write is the cached default ticker of PaperBroker.
C18_GuardChangesNoLedgerBalancePrice ==
    [][(rg_pc = "ready" /\ rg_pc' = "returned") =>
          /\ rg_ledger' = rg_ledger
          /\ \A t \in rg_now..MaxNow :
                 ObservablePrices(rg_broker', t) = ObservablePrices(rg_broker, t)
          /\ rg_broker'.ticker_cache \in
                 {rg_broker.ticker_cache, <<DefaultTicker(rg_now)>>}
          /\ rg_result' \in GuardResults]_vars

\* a denial was returned by a call that cached the default ticker
C18_Witness ==
    /\ Returned /\ rg_result[1] = FALSE
    /\ rg_broker.ticker_cache = <<DefaultTicker(rg_now)>>

(***************************************************************************)
(* Properties of the live run                                              *)
(***************************************************************************)
\* the orders the exchange holds from symbol cycle c
CycleOrders(c) == SelectSeq(exch, LAMBDA o : o.cycle = c)

\* order i of the exchange has a row in the Ledger orders file
Recorded(i) == \E j \in 1..Len(ledger_orders) : ledger_orders[j].order_id = i

\* C1: no order-mutating broker call (create_order, place_order_limit_safe,
\* cancel_order) is ever issued while the KILL_SWITCH file is present, also
\* when the file appears after the run has started.
C1_NoMutationUnderKillSwitch == mutated_under_kill = FALSE

\* C2: for one order decision of quantity amount, the total quantity filled
\* at the exchange never exceeds amount, and at most one order placed for
\* the decision is open at the exchange at any time.
C2_NoOverfillSingleOpen ==
    \A c \in 1..NSymbols :
        LET os == CycleOrders(c)
        IN  /\ Cardinality({i \in 1..Len(os) : os[i].status = "open"}) <= 1
            /\ \A i \in 1..Len(os) :
                   FilledOf(os, 1, "buy") + FilledOf(os, 1, "sell")
                       <= os[i].amount

C4_FailedReconcileAborts ==
    /\ pre_reconcile = "failed" =>
          /\ ~Running
          /\ broker = "none" /\ ~broker_called
          /\ ledger_orders = <<>> /\ ledger_trades = {} /\ snapshots = 0
          /\ kill_switch
    /\ (config.trader_mode \in {"testnet", "live"} /\ sym >= 1) =>
          pre_reconcile = "ok"

BlockedStatus == {"BLOCKED_RISK", "BLOCKED_CONFIRM"}

\* the order row the step appends to the Ledger, if it appends one
RowWritten == Len(ledger_orders') = Len(ledger_orders) + 1
NewRow == ledger_orders'[Len(ledger_orders')]

\* C20: within a symbol cycle an order-creating broker call happens only
\* after the signal was computed and check_risk_limits returned allowed and,
\* in live mode, the armed check passed; a cycle that writes a BLOCKED_RISK
\* or BLOCKED_CONFIRM row has no order call and no other order row; and a
\* row with any other status than blocked or DRY_RUN is written only for an
\* order the broker call has returned.
C20_DecisionCycleOrder ==
    [][/\ (Len(exch') > Len(exch) \/ pc' \in {"pols_book", "pols_create"}) =>
             /\ target_position # None
             /\ risk_ok = "allowed"
             /\ config.trader_mode = "live" => is_live_armed(config)
       /\ (RowWritten /\ NewRow.status \in BlockedStatus) =>
             /\ CycleOrders(sym) = <<>> /\ exch' = exch
             /\ sym' = sym + 1
             /\ \A j \in 1..Len(ledger_orders) : ledger_orders[j].cycle # sym
       /\ (RowWritten /\ NewRow.status \notin BlockedStatus \cup {"DRY_RUN"}) =>
             /\ NewRow.order_id \in 1..Len(exch')
             /\ exch'[NewRow.order_id].cycle = sym
             /\ risk_ok = "allowed"]_vars

\* an order was placed and recorded after the guard allowed it, and a blocked
\* cycle lies behind in the same run
C20_Witness ==
    /\ order_placed /\ risk_ok = "allowed" /\ sym = 2
    /\ CycleOrders(2) # <<>>
    /\ \E j \in 1..Len(ledger_orders) :
          ledger_orders[j].status = "BLOCKED_RISK" /\ ledger_orders[j].cycle = 1

(***************************************************************************)
(* Properties of the candle replay                                         *)
(***************************************************************************)
StateFields(st) ==
    <<st.cash_quote, st.pos_base, st.last_ts, st.prev_diff,
      st.peak_equity_quote, st.max_drawdown_pct, st.trades_total>>

\* one run over the whole history from the fresh state
FullRun == Simulate(hist, FreshState, cfg)

\* C5 as stated: resume equivalence - a run on the candles with ts <= T, then
\* a run from the persisted state on only the candles with ts > T, ends in
\* the state of one run of simulate_ma_cross over the full history.
C5_ResumeSuffixOnly ==
    (simPc = "done" /\ resume = "suffix" /\ cfg.engine = "ma" /\ Increasing(hist))
        => StateFields(state) = StateFields(FullRun.state)

\* C5 amended: the second run is given the persisted state and the full
\* history (the candles with ts <= T are skipped but feed the rolling
\* windows); its final state is that of one run over the full history.
C5_ResumeFullHistory ==
    (simPc = "done" /\ resume = "full" /\ cfg.engine = "ma" /\ Increasing(hist))
        => StateFields(state) = StateFields(FullRun.state)

C5_Witness ==
    /\ simPc = "done" /\ resume = "full" /\ cfg.engine = "ma"
    /\ persisted.state.prev_diff # None
    /\ Len(persisted.ohlcv) < Len(hist)
    /\ Len(persisted.new_trades) > 0
    /\ Len(new_trades) > 0

\* C6: idempotent resume over the full history - a run on candles[0..k] and
\* then, from the returned state, a run on candles[0..n] give the final state
\* and the concatenated trade list of a single run on candles[0..n]; with
\* k = n the second run emits no trade, no equity point and changes no field.
C6_IdempotentResume ==
    (simPc = "done" /\ resume = "full") =>
        /\ state = FullRun.state
        /\ persisted.new_trades \o new_trades = FullRun.new_trades
        /\ (persisted.ohlcv = hist =>
               /\ new_trades = <<>>
               /\ equity_curve = <<>>
               /\ state = persisted.state)

C6_Witness ==
    /\ simPc = "done" /\ resume = "full"
    /\ persisted.ohlcv = hist
    /\ Len(persisted.new_trades) > 0
    /\ Len(persisted.equity_curve) > 1

\* C7: after every BUY or SELL applied by simulate_ma_cross or
\* simulate_strategy the cash is not negative.
C7_CashNeverNegative ==
    \A j \in 1..Len(new_trades) : RLe(RZero, new_trades[j].cash_quote_after)

\* a trade was applied on the candle the loop is at
TradeApplied ==
    /\ simPc = "loop" /\ simPc' = "loop" /\ idx' = idx + 1
    /\ Len(new_trades') = Len(new_trades) + 1

LastTrade == new_trades'[Len(new_trades')]

\* C8 as stated: conservation law - at each trade applied by
\* simulate_ma_cross the equity at the candle close right after the trade is
\* the equity at that close right before it minus the fee of the trade.
C8_EquityMinusFee ==
    [][(TradeApplied /\ cfg.engine = "ma") =>
          mark_equity(state', ohlcv[idx].close)
            = RSub(mark_equity(state, ohlcv[idx].close), LastTrade.fee_quote)]_vars

\* C8 amended: the equity right after the trade is the equity right before it
\* minus the fee and minus the slippage cost qty * close * slippage_bps/10000.
C8_EquityMinusFeeAndSlippage ==
    [][(TradeApplied /\ cfg.engine = "ma") =>
          mark_equity(state', ohlcv[idx].close)
            = RSub(RSub(mark_equity(state, ohlcv[idx].close), LastTrade.fee_quote),
                   RMul(RMul(LastTrade.qty, RInt(ohlcv[idx].close)),
                        _slip_factor(cfg.slippage_bps)))]_vars

C8_Witness ==
    /\ cfg.engine = "ma" /\ cfg.slippage_bps > 0 /\ RLt(RZero, cfg.fee_rate)
    /\ \E j \in 1..Len(new_trades) : new_trades[j].side = "SELL"

\* C9: peak_equity_quote never decreases once set, max_drawdown_pct never
\* increases and is never positive, within a run and across resumed runs.
C9_MonotonicDrawdown ==
    [][/\ state.peak_equity_quote # None =>
            /\ state'.peak_equity_quote # None
            /\ RLe(state.peak_equity_quote, state'.peak_equity_quote)
       /\ RLe(state'.max_drawdown_pct, state.max_drawdown_pct)
       /\ RLe(state'.max_drawdown_pct, RZero)]_vars

\* a resumed run raised the peak of the first run and then drew down
C9_Witness ==
    /\ callNo = 2 /\ simPc = "done"
    /\ persisted.state.peak_equity_quote # None
    /\ RLt(persisted.state.peak_equity_quote, state.peak_equity_quote)
    /\ RLt(state.max_drawdown_pct, persisted.state.max_drawdown_pct)

\* C10: last_ts strictly increases at every assignment, whatever the order of
\* the timestamps, and a candle with ts <= last_ts changes no state field,
\* adds no trade and no equity point.
C10_LastTsStrictlyIncreases ==
    [][(simPc = "loop" /\ idx' = idx + 1) =>
          /\ state'.last_ts # state.last_ts =>
                (state.last_ts = None \/ state.last_ts[1] < state'.last_ts[1])
          /\ (state.last_ts # None /\ ohlcv[idx].ts <= state.last_ts[1]) =>
                /\ state' = state
                /\ new_trades' = new_trades
                /\ equity_curve' = equity_curve
          /\ (state.last_ts = None \/ ohlcv[idx].ts > state.last_ts[1]) =>
                state'.last_ts = <<ohlcv[idx].ts>>]_vars

\* a candle older than last_ts was met in the first run, after a trade
C10_Witness ==
    /\ callNo = 1 /\ simPc = "loop" /\ idx > 1
    /\ state.last_ts # None
    /\ ohlcv[idx - 1].ts < state.last_ts[1]
    /\ Len(new_trades) > 0

(***************************************************************************)
(* reconcile_live.py                                                       *)
(***************************************************************************)

\* the classes of the exceptions a reconciliation can raise: the five that
\* classify_exception tests and one that is none of them
ExcClasses ==
    {"AuthenticationError", "RateLimitExceeded", "InvalidNonce",
     "NetworkError", "ExchangeNotAvailable", "TypeError"}

\* the tested classes an exception of class cls is an instance of. In
\* ccxt.base.errors RateLimitExceeded, InvalidNonce and ExchangeNotAvailable
\* derive from NetworkError; AuthenticationError derives from ExchangeError.
Bases(cls) ==
    CASE cls = "AuthenticationError"  -> {"AuthenticationError"}
      [] cls = "RateLimitExceeded"    -> {"RateLimitExceeded", "NetworkError"}
      [] cls = "InvalidNonce"         -> {"InvalidNonce", "NetworkError"}
      [] cls = "NetworkError"         -> {"NetworkError"}
      [] cls = "ExchangeNotAvailable" -> {"ExchangeNotAvailable",
                                          "NetworkError"}
      [] OTHER                        -> {}

isinstance(e, cls) == cls \in Bases(e.cls)

\* an exception: its class, and whether str(e) contains "-1021"
Exceptions == [cls : ExcClasses, mentions_1021 : BOOLEAN]

classify_exception(e) ==
    IF isinstance(e, "AuthenticationError") THEN "AUTH"
    ELSE IF isinstance(e, "RateLimitExceeded") THEN "RATE_LIMIT"
    ELSE IF isinstance(e, "InvalidNonce") \/ e.mentions_1021 THEN "TIME_SKEW"
    ELSE IF isinstance(e, "NetworkError") THEN "NETWORK"
    ELSE IF isinstance(e, "ExchangeNotAvailable") THEN "EXCHANGE_DOWN"
    ELSE "UNKNOWN"

\* line 60 calls ledger.get_daily_pnl() without the `config` argument that
\* Ledger.get_daily_pnl(self, config) requires: the call raises TypeError
LedgerBalanceCall == [cls |-> "TypeError", mentions_1021 |-> FALSE]

\* line 36
is_full_check(c) == c.trader_mode \in {"testnet", "live"}

\* line 70: rows whose trade_id is empty (0) are left out
ledger_trade_ids(l) == {t \in l : t # 0}

\* lines 66-79, the entries appended to `discrepancies`
Discrepancies(l, x) ==
    (IF x \ ledger_trade_ids(l) # {}
     THEN <<[missing_in |-> "ledger", ids |-> x \ ledger_trade_ids(l)]>>
     ELSE <<>>)
    \o (IF ledger_trade_ids(l) \ x # {}
        THEN <<[missing_in |-> "exchange", ids |-> ledger_trade_ids(l) \ x]>>
        ELSE <<>>)

ReconcileResult(ok, reason, ds, code, called) ==
    [ok |-> ok, reason |-> reason, discrepancies |-> ds, exit_code |-> code,
     broker_called |-> called]

\* lines 48-101: the first exception of the try block, in program order, is
\* the broker's (lines 50-55) or else that of line 60
FullCheck(l, x, raised) ==
    LET e == IF raised # None THEN raised ELSE LedgerBalanceCall
        ds == Discrepancies(l, x)
    IN  IF e # None
        THEN ReconcileResult(FALSE, classify_exception(e), <<>>, 2, TRUE)
        ELSE ReconcileResult(ds = <<>>,
                             IF ds = <<>> THEN "OK" ELSE "DISCREPANCIES",
                             ds, IF ds = <<>> THEN 0 ELSE 2, TRUE)

\* lines 31-101 of main
Reconcile(c, l, x, raised) ==
    IF is_full_check(c) /\ ~is_live_capable(c)
    THEN ReconcileResult(FALSE, "NOT_CONFIGURED_LIVE", <<>>, 2, FALSE)
    ELSE IF ~is_full_check(c)
    THEN ReconcileResult(TRUE, "SKIP_MODE_PAPER", <<>>, 0, FALSE)
    ELSE FullCheck(l, x, raised)

MaxTradeId == 2

InitReconcile ==
    /\ rc_config \in Configs
    /\ rc_ledger \in SUBSET (0..MaxTradeId)
    /\ rc_exchange \in SUBSET (1..MaxTradeId)
    /\ rc_raised \in {None} \cup Exceptions
    /\ rc_result = None /\ rc_pc = "import"
    /\ ExtOff
    /\ SimOff /\ LiveOff /\ RetryOff /\ GuardOff /\ LedgerOff /\ ResolveOff
    /\ YahooOff /\ SaveOff /\ AlertOff

\* line 13, `from .config import load_config, BASE_DIR, REPORTS_DIR`:
\* trader/config.py binds no REPORTS_DIR, so the import raises ImportError
\* and the process ends with exit code 1 and no report, unless the config
\* module of the deployment binds the name.
ReconcileImport(bound) ==
    /\ rc_pc = "import"
    /\ IF bound
       THEN rc_pc' = "main" /\ UNCHANGED rc_result
       ELSE /\ rc_pc' = "crashed"
            /\ rc_result' = [exit_code |-> 1]
    /\ UNCHANGED <<simVars, liveVars, retryVars, guardVars, extVars, ledgerFileVars,
                   resolveVars, yahooVars, saveVars, alertVars, rc_config, rc_ledger, rc_exchange, rc_raised>>

\* main: the result is computed, written to reconcile_latest.json and
\* reconcile_latest.txt, and the process exits with exit_code
ReconcileMain ==
    /\ rc_pc = "main"
    /\ rc_result' = Reconcile(rc_config, rc_ledger, rc_exchange, rc_raised)
    /\ rc_pc' = "done"
    /\ UNCHANGED <<simVars, liveVars, retryVars, guardVars, extVars, ledgerFileVars,
                   resolveVars, yahooVars, saveVars, alertVars, rc_config, rc_ledger, rc_exchange, rc_raised>>

NextReconcile ==
    \/ \E bound \in BOOLEAN : ReconcileImport(bound)
    \/ ReconcileMain

SpecReconcile == InitReconcile /\ [][NextReconcile]_vars

(***************************************************************************)
(* Properties of the reconciler                                            *)
(***************************************************************************)

\* C21: the reconciler short-circuits to ok = true with a skipped reason,
\* without contacting the broker, in paper mode and also in live/testnet
\* mode when the credentials are not configured.
C21_SkippedWhenPaperOrUnconfigured ==
    (rc_pc = "done" /\ (~is_full_check(rc_config)
                          \/ ~is_live_capable(rc_config)))
    => /\ rc_result.ok
       /\ rc_result.reason \in {"SKIP_MODE_PAPER", "NOT_CONFIGURED_LIVE"}
       /\ ~rc_result.broker_called

\* C22: in a configured live/testnet reconciliation whose broker calls
\* succeed, the result is ok with reason OK exactly when the ledger's trade
\* ids equal the broker's, and not ok with reason DISCREPANCIES and a
\* non-empty discrepancy list when they differ.
C22_OkIffTradeIdsEqual ==
    (rc_pc = "done" /\ is_full_check(rc_config) /\ is_live_capable(rc_config)
       /\ rc_raised = None)
    => IF ledger_trade_ids(rc_ledger) = rc_exchange
       THEN rc_result.ok /\ rc_result.reason = "OK"
       ELSE /\ ~rc_result.ok /\ rc_result.reason = "DISCREPANCIES"
            /\ rc_result.discrepancies # <<>>

\* the kinds the failure of exception e is described by: its class's, and
\* TIME_SKEW when its message mentions -1021
KindsOf(e) ==
    {CASE e.cls = "AuthenticationError"  -> "AUTH"
       [] e.cls = "RateLimitExceeded"    -> "RATE_LIMIT"
       [] e.cls = "InvalidNonce"         -> "TIME_SKEW"
       [] e.cls = "NetworkError"         -> "NETWORK"
       [] e.cls = "ExchangeNotAvailable" -> "EXCHANGE_DOWN"
       [] OTHER                          -> "UNKNOWN"}
    \cup (IF e.mentions_1021 THEN {"TIME_SKEW"} ELSE {})

\* C23: when the reconciliation raises, the result is not ok and its reason
\* is the kind of the failure: AUTH, RATE_LIMIT, TIME_SKEW, NETWORK,
\* EXCHANGE_DOWN or UNKNOWN, also for an exception that is an instance of
\* more than one tested class.
C23_ReasonIsFailureKind ==
    (rc_pc = "done" /\ is_full_check(rc_config) /\ is_live_capable(rc_config)
       /\ rc_raised # None)
    => /\ ~rc_result.ok
       /\ rc_result.reason \in KindsOf(rc_raised)

(***************************************************************************)
(* ledger.py                                                               *)
(***************************************************************************)

MaxRecords == 3
NWriters == 2

\* _get_csv_path: live_<name>_history.csv
LedgerFiles == {"orders", "trades", "balance_snapshots"}

\* the header line that writeheader writes, and the line of one event
HeaderLine == [header |-> TRUE, id |-> 0]
RowLine(n) == [header |-> FALSE, id |-> n]

\* line 22, open(path, 'a'): a missing file is created empty, an existing
\* one keeps its content and every write goes to its end
OpenTruncate(f) == [exists |-> TRUE, lines |-> <<>>]

OpenAppend(f) == [exists |-> TRUE, lines |-> f.lines]

\* lines 22-26: what the file holds when the `with` block is left
append_csv(f, file_exists, n) ==
    [OpenAppend(f) EXCEPT !.lines =
        @ \o (IF ~file_exists THEN <<HeaderLine>> ELSE <<>>)
          \o <<RowLine(n)>>]

\* lines 86-87 and 109-110 return early for a missing file; csv.DictReader
\* takes the first line as the header and yields the others
ReadRows(f) == IF ~f.exists \/ f.lines = <<>> THEN <<>> ELSE Tail(f.lines)

MissingFile == [exists |-> FALSE, lines |-> <<>>]
ExistingFile == [exists |-> TRUE, lines |-> <<HeaderLine, RowLine(0)>>]

IdleWriter == [pc |-> "idle", file |-> "none", file_exists |-> FALSE, id |-> 0]

InitLedgerWith(n) ==
    /\ lf_files \in [LedgerFiles -> {MissingFile, ExistingFile}]
    /\ lf_writer = [w \in 1..n |-> IdleWriter]
    /\ lf_calls = 0
    /\ lf_returned = [k \in LedgerFiles |-> 0]
    /\ lf_read = None
    /\ lf_n = n
    /\ ExtOff
    /\ SimOff /\ LiveOff /\ RetryOff /\ GuardOff /\ ReconcileOff /\ ResolveOff
    /\ YahooOff /\ SaveOff /\ AlertOff

\* callers that may run at the same time, and one caller alone
InitLedger == InitLedgerWith(NWriters)
InitLedgerSeq == InitLedgerWith(1)

\* record_order / record_trade / record_balance_snapshot up to line 21: the
\* row is built and `file_exists = path.exists()` is evaluated
RecordBegin(w, k) ==
    /\ lf_writer[w].pc = "idle"
    /\ lf_calls < MaxRecords
    /\ lf_calls' = lf_calls + 1
    /\ lf_writer' = [lf_writer EXCEPT ![w] =
                        [pc |-> "checked", file |-> k,
                         file_exists |-> lf_files[k].exists,
                         id |-> lf_calls + 1]]
    /\ UNCHANGED <<simVars, liveVars, retryVars, guardVars, extVars, reconcileVars,
                   resolveVars, yahooVars, saveVars, alertVars,
                   lf_files, lf_returned, lf_read, lf_n>>

\* lines 22-26: the file is opened for append, the header is written when
\* the file did not exist at line 21, the row is written, the file is closed
RecordAppend(w) ==
    /\ lf_writer[w].pc = "checked"
    /\ LET k == lf_writer[w].file
       IN  /\ lf_files' = [lf_files EXCEPT ![k] =
                              append_csv(lf_files[k], lf_writer[w].file_exists,
                                         lf_writer[w].id)]
           /\ lf_returned' = [lf_returned EXCEPT ![k] = @ + 1]
    /\ lf_writer' = [lf_writer EXCEPT ![w] = IdleWriter]
    /\ UNCHANGED <<simVars, liveVars, retryVars, guardVars, extVars, reconcileVars,
                   resolveVars, yahooVars, saveVars, alertVars,
                   lf_calls, lf_read, lf_n>>

\* get_recent_trades (lines 84-104) and get_daily_pnl (lines 106-139): the
\* file is opened for reading
ReadLedger(w, k) ==
    /\ lf_writer[w].pc = "idle"
    /\ k \in {"trades", "balance_snapshots"}
    /\ lf_read' = [file |-> k, rows |-> ReadRows(lf_files[k])]
    /\ UNCHANGED <<simVars, liveVars, retryVars, guardVars, extVars, reconcileVars,
                   resolveVars, yahooVars, saveVars, alertVars,
                   lf_files, lf_writer, lf_calls, lf_returned, lf_n>>

NextLedger ==
    \/ \E w \in 1..lf_n, k \in LedgerFiles : RecordBegin(w, k)
    \/ \E w \in 1..lf_n : RecordAppend(w)
    \/ \E w \in 1..lf_n, k \in LedgerFiles : ReadLedger(w, k)

SpecLedger == InitLedger /\ [][NextLedger]_vars
SpecLedgerSeq == InitLedgerSeq /\ [][NextLedger]_vars

(***************************************************************************)
(* Properties of the Ledger                                                *)
(***************************************************************************)

\* a record_* call on file k returns in this step
RecordReturns(k) == lf_returned'[k] = lf_returned[k] + 1

\* C24: with one caller, a step in which a record_* call on a file returns
\* leaves the file's earlier lines in place and adds exactly one row after
\* them (behind the header when the file is new); every other step, the
\* reads included, leaves every file as it was.
C24_AppendOnly ==
    [][\A k \in LedgerFiles :
          IF RecordReturns(k)
          THEN \E r \in 1..lf_calls :
                  lf_files'[k].lines =
                      lf_files[k].lines
                      \o (IF lf_files[k].exists THEN <<>> ELSE <<HeaderLine>>)
                      \o <<RowLine(r)>>
          ELSE lf_files'[k] = lf_files[k]]_vars

\* rows were added to a file that had rows, and the file was read
C24_Witness ==
    /\ lf_n = 1
    /\ lf_returned["trades"] = 2
    /\ Len(lf_files["trades"].lines) = 4
    /\ lf_read # None /\ lf_read.file = "trades" /\ Len(lf_read.rows) = 3

Headers(f) == {i \in 1..Len(f.lines) : f.lines[i].header}

\* C25: when callers append to one ledger file concurrently, the file ends
\* up with exactly one header line, its first, followed by one row per
\* recorded event.
C25_OneHeaderThenRows ==
    \A k \in LedgerFiles :
        ((\A w \in 1..lf_n : lf_writer[w].pc = "idle") /\ lf_files[k].exists)
        => /\ Headers(lf_files[k]) = {1}
           /\ Len(lf_files[k].lines) \in {1 + lf_returned[k],
                                          2 + lf_returned[k]}

(***************************************************************************)
(* strategies/registry.py and paper_engine.simulate_strategy               *)
(***************************************************************************)

MaxCandles == 2

\* strategies/__init__.py: the registered ids
Registered == {"ma_cross", "bb_squeeze", "breakout_volume"}

\* StrategyRegistry._default_strategy_id
default_strategy_id == "bb_squeeze"

\* the requires_volume property of each strategy class
requires_volume(id) == id = "breakout_volume"

\* the strategy_id a caller may pass: None, a registered id, any other
NoStrategyId == "None"
RequestIds == {NoStrategyId, "unknown"} \cup Registered

\* what the DataFrame holds as volume
VolumeKinds == {"empty_df", "no_column", "all_null", "all_zero", "positive"}

\* _check_volume_data
check_volume_data(v) == v = "positive"

\* get_strategy: `strategy_class()`; no strategy class, and no instance of
\* one, has an attribute _fallback_info
NoAttribute == [set |-> FALSE]
get_strategy(id) == [cls |-> id, fallback_info |-> NoAttribute]

\* hasattr(strategy, '_fallback_info')
has_fallback_info(strategy) == strategy.fallback_info.set

\* lines 159-163
FallbackInfo(original, fallback) ==
    [set |-> TRUE, original_strategy |-> original,
     fallback_strategy |-> fallback,
     fallback_reason |-> "missing_volume_data"]

\* lines 129-167
resolve_strategy(strategy_id, v) ==
    LET id1 == IF strategy_id = NoStrategyId THEN default_strategy_id
               ELSE strategy_id
        id2 == IF id1 \notin Registered THEN default_strategy_id ELSE id1
        original == IF strategy_id = NoStrategyId THEN id2 ELSE strategy_id
        strategy == get_strategy("bb_squeeze")
    IN  IF requires_volume(id2) /\ ~check_volume_data(v)
        THEN IF has_fallback_info(strategy)
             THEN [strategy EXCEPT !.fallback_info =
                                      FallbackInfo(original, "bb_squeeze")]
             ELSE strategy
        ELSE get_strategy(id2)

\* paper_engine.py line 244: getattr(strategy, '_fallback_info', None)
getattr_fallback_info(strategy) ==
    IF has_fallback_info(strategy) THEN strategy.fallback_info ELSE None

\* lines 270-285 and 299-314: the trade record with strategy_meta merged in
TradeRecord(side, strategy) ==
    [side |-> side, strategy_id |-> "unknown",
     fallback_info |-> getattr_fallback_info(strategy)]

InitResolve ==
    /\ rs_request \in RequestIds
    /\ rs_volume \in VolumeKinds
    /\ rs_strategy = None /\ rs_candles = 0 /\ rs_trades = <<>>
    /\ rs_pc = "resolve"
    /\ ExtOff
    /\ SimOff /\ LiveOff /\ RetryOff /\ GuardOff /\ ReconcileOff /\ LedgerOff
    /\ YahooOff /\ SaveOff /\ AlertOff

ResolveStrategy ==
    /\ rs_pc = "resolve"
    /\ rs_strategy' = resolve_strategy(rs_request, rs_volume)
    /\ rs_pc' = "simulate"
    /\ UNCHANGED <<simVars, liveVars, retryVars, guardVars, extVars, reconcileVars,
                   ledgerFileVars, yahooVars, saveVars, alertVars, rs_request, rs_volume, rs_candles,
                   rs_trades>>

\* one candle of simulate_strategy whose signal is executed (a BUY with
\* cash, a SELL with a position) or is 0
SimulateCandle(signal) ==
    /\ rs_pc = "simulate"
    /\ rs_candles < MaxCandles
    /\ rs_candles' = rs_candles + 1
    /\ rs_trades' =
          IF signal = 1 THEN Append(rs_trades, TradeRecord("BUY", rs_strategy))
          ELSE IF signal = -1
               THEN Append(rs_trades, TradeRecord("SELL", rs_strategy))
               ELSE rs_trades
    /\ UNCHANGED <<simVars, liveVars, retryVars, guardVars, extVars, reconcileVars,
                   ledgerFileVars, yahooVars, saveVars, alertVars, rs_request, rs_volume, rs_strategy, rs_pc>>

NextResolve ==
    \/ ResolveStrategy
    \/ \E signal \in {-1, 0, 1} : SimulateCandle(signal)

SpecResolve == InitResolve /\ [][NextResolve]_vars

\* C26: when the requested strategy requires volume and the data has no
\* usable volume, resolve_strategy returns a volume-independent strategy and
\* every trade record simulate_strategy produces with it carries the
\* original strategy, the fallback strategy and the fallback reason.
C26_FallbackVisibleInTrades ==
    (rs_pc = "simulate" /\ rs_request \in Registered
       /\ requires_volume(rs_request) /\ ~check_volume_data(rs_volume))
    => /\ ~requires_volume(rs_strategy.cls)
       /\ \A i \in 1..Len(rs_trades) :
             rs_trades[i].fallback_info =
                 FallbackInfo(rs_request, rs_strategy.cls)

(***************************************************************************)
(* run_paper_sim_yahoo.py: the per-symbol body of main                     *)
(***************************************************************************)

MaxDate == 2

\* the symbol states a state file can hold; a timestamp is None or <<ms>>
SymbolStates ==
    [cash_quote : {RZero, RInt(7)}, pos_base : {RZero, RInt(2)},
     last_ts : {None} \cup {<<t>> : t \in 0..(MaxDate + 1)},
     prev_diff : {None, <<ROne>>},
     peak_equity_quote : {None, <<RInt(20)>>},
     max_drawdown_pct : {RZero, RInt(-5)},
     trades_total : {0, 3}]

\* line 180: `state.last_ts and state.last_ts > max_date_ms`
FutureDatedOrEqual(st, max_date_ms) ==
    /\ st.last_ts # None /\ st.last_ts[1] # 0
    /\ st.last_ts[1] >= max_date_ms

FutureDated(st, max_date_ms) ==
    /\ st.last_ts # None /\ st.last_ts[1] # 0
    /\ st.last_ts[1] > max_date_ms

\* lines 182-190: cash_quote is initial_capital_jpy / jpy_per_usdt
ResetState(st) == [FreshState EXCEPT !.trades_total = st.trades_total]

InitYahoo ==
    /\ ys_raw \in SymbolStates
    /\ ys_max_date \in 0..MaxDate
    /\ ys_state = None /\ ys_warnings = <<>> /\ ys_sim_input = None
    /\ ys_persisted = None /\ ys_pc = "load"
    /\ ExtOff
    /\ SimOff /\ LiveOff /\ RetryOff /\ GuardOff /\ ReconcileOff /\ LedgerOff
    /\ ResolveOff /\ SaveOff /\ AlertOff

\* lines 109-176: PaperState is built from the loaded symbol
\* state and the data is loaded (a run without data returns 1 before)
YahooLoad ==
    /\ ys_pc = "load"
    /\ ys_state' = ys_raw
    /\ ys_pc' = "check"
    /\ UNCHANGED <<simVars, liveVars, retryVars, guardVars, extVars, reconcileVars,
                   ledgerFileVars, resolveVars, saveVars, alertVars, ys_raw, ys_max_date,
                   ys_warnings, ys_sim_input, ys_persisted>>

\* lines 178-191
YahooCheck ==
    /\ ys_pc = "check"
    /\ IF FutureDated(ys_state, ys_max_date)
       THEN /\ ys_state' = ResetState(ys_state)
            /\ ys_warnings' = Append(ys_warnings, "state reset")
       ELSE UNCHANGED <<ys_state, ys_warnings>>
    /\ ys_pc' = "simulate"
    /\ UNCHANGED <<simVars, liveVars, retryVars, guardVars, extVars, reconcileVars,
                   ledgerFileVars, resolveVars, saveVars, alertVars, ys_raw, ys_max_date,
                   ys_sim_input, ys_persisted>>

\* lines 193-203: simulate_ma_cross_yahoo(sym, state, ...). Of its result
\* the model keeps that last_ts is the latest timestamp once a candle newer
\* than last_ts was processed, and how many trades were added.
YahooSimulate(trades) ==
    /\ ys_pc = "simulate"
    /\ ys_sim_input' = ys_state
    /\ IF ys_state.last_ts = None \/ ys_state.last_ts[1] < ys_max_date
       THEN ys_state' = [ys_state EXCEPT !.last_ts = <<ys_max_date>>,
                                         !.trades_total = @ + trades]
       ELSE trades = 0 /\ UNCHANGED ys_state
    /\ ys_pc' = "persist"
    /\ UNCHANGED <<simVars, liveVars, retryVars, guardVars, extVars, reconcileVars,
                   ledgerFileVars, resolveVars, saveVars, alertVars, ys_raw, ys_max_date,
                   ys_warnings, ys_persisted>>

\* lines 245-254 and 285: the state goes into st and st is saved
YahooPersist ==
    /\ ys_pc = "persist"
    /\ ys_persisted' = ys_state
    /\ ys_pc' = "done"
    /\ UNCHANGED <<simVars, liveVars, retryVars, guardVars, extVars, reconcileVars,
                   ledgerFileVars, resolveVars, saveVars, alertVars, ys_raw, ys_max_date, ys_state,
                   ys_warnings, ys_sim_input>>

NextYahoo ==
    \/ YahooLoad
    \/ YahooCheck
    \/ \E trades \in 0..1 : YahooSimulate(trades)
    \/ YahooPersist

SpecYahoo == InitYahoo /\ [][NextYahoo]_vars

\* the state that goes into the simulation, once the check is over
Checked == IF ys_pc = "simulate" THEN ys_state ELSE ys_sim_input

\* C27: a persisted state whose last_ts is greater than the latest candle
\* timestamp is reset to a fresh state (initial cash, no position, last_ts,
\* prev_diff and peak unset, drawdown 0) that keeps trades_total, a warning
\* is recorded and the simulation starts from the reset state; a state that
\* is not future-dated is never reset.
C27_FutureDatedStateReset ==
    ys_pc \in {"simulate", "persist", "done"}
    => IF ys_raw.last_ts # None /\ ys_raw.last_ts[1] > ys_max_date
       THEN /\ Checked = [cash_quote |-> RInt(InitialCash), pos_base |-> RZero,
                          last_ts |-> None, prev_diff |-> None,
                          peak_equity_quote |-> None,
                          max_drawdown_pct |-> RZero,
                          trades_total |-> ys_raw.trades_total]
            /\ ys_warnings # <<>>
       ELSE Checked = ys_raw /\ ys_warnings = <<>>

\* a future-dated state with trades went through the run
C27_Witness ==
    /\ ys_pc = "done"
    /\ ys_raw.last_ts = <<MaxDate + 1>> /\ ys_max_date = MaxDate
    /\ ys_raw.trades_total = 3 /\ ys_raw.pos_base = RInt(2)
    /\ ys_persisted.trades_total = 4 /\ ys_persisted.last_ts = <<MaxDate>>

(***************************************************************************)
(* run_paper_sim_yahoo.save_state and brokers/paper.py PaperState.save      *)
(***************************************************************************)

\* the keys json.dump writes, in order (paper.py lines 35-43)
SavedKeys == <<"cash_quote", "pos_base", "trades_total">>

SavedStates == [cash_quote : {0, 16}, pos_base : {0, 2}, trades_total : {0, 1}]

\* json.dump(data, f): the text, as one piece per key
Serialize(st) == [i \in 1..Len(SavedKeys) |-> <<SavedKeys[i], st[SavedKeys[i]]>>]

NoStateFile == [exists |-> FALSE, data |-> <<>>]
StateFile(st) == [exists |-> TRUE, data |-> Serialize(st)]

InitSave ==
    /\ sv_old \in {None} \cup SavedStates
    /\ sv_new \in SavedStates
    /\ sv_file = IF sv_old = None THEN NoStateFile ELSE StateFile(sv_old)
    /\ sv_pc = "open"
    /\ ExtOff
    /\ SimOff /\ LiveOff /\ RetryOff /\ GuardOff /\ ReconcileOff /\ LedgerOff
    /\ ResolveOff /\ YahooOff /\ AlertOff

\* `with open(path, "w") as f`: the file is created or truncated
SaveOpen ==
    /\ sv_pc = "open"
    /\ sv_file' = [exists |-> TRUE, data |-> <<>>]
    /\ sv_pc' = "write"
    /\ UNCHANGED <<simVars, liveVars, retryVars, guardVars, extVars, reconcileVars,
                   ledgerFileVars, resolveVars, yahooVars, alertVars, sv_old, sv_new>>

\* json.dump: the buffer is flushed to the file, n pieces at a time
SaveFlush(n) ==
    /\ sv_pc = "write"
    /\ n >= 1 /\ Len(sv_file.data) + n <= Len(SavedKeys)
    /\ sv_file' = [sv_file EXCEPT !.data =
                      SubSeq(Serialize(sv_new), 1, Len(sv_file.data) + n)]
    /\ sv_pc' = IF Len(sv_file.data) + n = Len(SavedKeys) THEN "close"
                ELSE "write"
    /\ UNCHANGED <<simVars, liveVars, retryVars, guardVars, extVars, reconcileVars,
                   ledgerFileVars, resolveVars, yahooVars, alertVars, sv_old, sv_new>>

\* the `with` block is left
SaveClose ==
    /\ sv_pc = "close"
    /\ sv_pc' = "saved"
    /\ UNCHANGED <<simVars, liveVars, retryVars, guardVars, extVars, reconcileVars,
                   ledgerFileVars, resolveVars, yahooVars, alertVars, sv_old, sv_new,
                   sv_file>>

\* the process is killed, or the machine stops, during the save
SaveInterrupted ==
    /\ sv_pc \in {"open", "write", "close"}
    /\ sv_pc' = "interrupted"
    /\ UNCHANGED <<simVars, liveVars, retryVars, guardVars, extVars, reconcileVars,
                   ledgerFileVars, resolveVars, yahooVars, alertVars, sv_old, sv_new,
                   sv_file>>

NextSave ==
    \/ SaveOpen
    \/ \E n \in 1..Len(SavedKeys) : SaveFlush(n)
    \/ SaveClose
    \/ SaveInterrupted

SpecSave == InitSave /\ [][NextSave]_vars

\* C28: when the process is interrupted at any point of the save, the state
\* file afterwards holds the complete previous state or the complete new
\* state, never an empty or partly written one.
C28_AtomicStateSave ==
    sv_pc = "interrupted"
    => \/ sv_file = StateFile(sv_new)
       \/ sv_file = (IF sv_old = None THEN NoStateFile ELSE StateFile(sv_old))

(***************************************************************************)
(* alert.py, notify_gmail.py                                               *)
(***************************************************************************)

MaxAlertCalls == 3
MaxDays == 2

\* what send_gmail does: 0 after the message went out, 2 when GMAIL_USER or
\* GMAIL_APP_PASSWORD is missing, 1 when SMTP failed (notify_gmail.py lines
\* 12-14 and 24-35); building the message (lines 18-22) may raise
SendOutcomes == {"sent", "missing_env", "smtp_error", "raised"}

\* alert.py lines 34-37: the flag is written and True returned whenever
\* send_gmail returns, whatever it returns
FlagAfterSend(outcome) == outcome # "raised"

\* one call send_alert_once(subject, body, to): has_to is whether `to` or
\* TRADER_ALERT_EMAIL names a recipient
AlertCall(has_to, outcome) ==
    LET flagged == has_to /\ FlagAfterSend(outcome)
    IN  [day |-> al_day, has_to |-> has_to, outcome |-> outcome,
         flag_before |-> al_day \in al_flags,
         sent_before |-> al_sent[al_day] > 0,
         called_send |-> al_day \notin al_flags /\ has_to,
         flag_written |-> al_day \notin al_flags /\ flagged,
         result |-> IF al_day \notin al_flags /\ flagged THEN "True"
                    ELSE "False"]

InitAlert ==
    /\ al_reports_dir \in BOOLEAN
    /\ al_day = 1 /\ al_flags = {}
    /\ al_sent = [d \in 1..MaxDays |-> 0]
    /\ al_calls = 0 /\ al_last = None
    /\ ExtOff
    /\ SimOff /\ LiveOff /\ RetryOff /\ GuardOff /\ ReconcileOff /\ LedgerOff
    /\ ResolveOff /\ YahooOff /\ SaveOff

\* lines 19-41 when `from .config import REPORTS_DIR` of line 20 resolves
SendAlertOnce(has_to, outcome) ==
    /\ al_reports_dir
    /\ al_calls < MaxAlertCalls
    /\ al_calls' = al_calls + 1
    /\ al_last' = AlertCall(has_to, outcome)
    /\ al_flags' = IF al_last'.flag_written THEN al_flags \cup {al_day}
                   ELSE al_flags
    /\ al_sent' = IF al_last'.called_send /\ outcome = "sent"
                  THEN [al_sent EXCEPT ![al_day] = @ + 1]
                  ELSE al_sent
    /\ UNCHANGED <<simVars, liveVars, retryVars, guardVars, extVars, reconcileVars,
                   ledgerFileVars, resolveVars, yahooVars, saveVars,
                   al_reports_dir, al_day>>

\* line 20 with trader/config.py as it is: the name REPORTS_DIR is not
\* bound there and the call raises ImportError, outside the try block
SendAlertOnceImportError ==
    /\ ~al_reports_dir
    /\ al_calls < MaxAlertCalls
    /\ al_calls' = al_calls + 1
    /\ al_last' = [day |-> al_day, result |-> "ImportError"]
    /\ UNCHANGED <<simVars, liveVars, retryVars, guardVars, extVars, reconcileVars,
                   ledgerFileVars, resolveVars, yahooVars, saveVars,
                   al_reports_dir, al_day, al_flags, al_sent>>

\* midnight passes
NextDay ==
    /\ al_day < MaxDays
    /\ al_day' = al_day + 1
    /\ UNCHANGED <<simVars, liveVars, retryVars, guardVars, extVars, reconcileVars,
                   ledgerFileVars, resolveVars, yahooVars, saveVars,
                   al_reports_dir, al_flags, al_sent, al_calls, al_last>>

NextAlert ==
    \/ \E has_to \in BOOLEAN, outcome \in SendOutcomes :
          SendAlertOnce(has_to, outcome)
    \/ SendAlertOnceImportError
    \/ NextDay

SpecAlert == InitAlert /\ [][NextAlert]_vars

InLimitSafe ==
    pc \in {"pols_create", "pols_poll", "pols_cancel", "pols_rebook", "record"}

\* C30: place_order_limit_safe places at most max_retry + 1 limit orders,
\* makes at most max_retry + 1 attempts, has cancelled the unfilled order of
\* the attempt before when it places the next one, and returns only an
\* order whose status is closed.
C30_SafeLimitOrderProtocol ==
    InLimitSafe
    => LET os == CycleOrders(sym)
       IN  /\ Len(os) <= max_retry + 1
           /\ attempt <= max_retry
           /\ (pc = "pols_create" /\ rtry = 0)
              => \A i \in 1..Len(os) : os[i].status # "open"
           /\ pc = "record" => exch[order_id].status = "closed"

(***************************************************************************)
(* The cross-up scenario of tests/test_ma_cross.py, run through            *)
(* simulate_ma_cross                                                       *)
(***************************************************************************)

\* test_ma_cross.py lines 7-16: five flat candles, then a rise
TestCloses == <<100, 100, 100, 100, 100, 105, 110, 115>>

\* MA(3,5), fee 0, slippage 0, risk_pct 1.0
ScenarioCfg ==
    [engine |-> "ma", ma_short |-> 3, ma_long |-> 5,
     risk_pct |-> ROne, fee_rate |-> RZero, slippage_bps |-> 0]

CandlesOf(cl) ==
    [j \in 1..Len(cl) |-> [ts |-> 1000 * j, close |-> cl[j], sig |-> 0]]

TestCandles == CandlesOf(TestCloses)

\* the scenario and its neighbours: the same five flat candles followed by
\* any three closes of the test's price levels
ScenarioCandles ==
    { CandlesOf(SubSeq(TestCloses, 1, 5) \o t) :
      t \in [1..3 -> {100, 105, 110, 115}] }

InitScenario == \E h \in ScenarioCandles : InitCall(h, ScenarioCfg)

NextScenario ==
    \/ SimStep
    \/ SimReturn

SpecScenario == InitScenario /\ [][NextScenario]_vars

ScenarioReturned == simPc = "returned" /\ hist = TestCandles

FloatBits == 3

\* x rounded to the nearest float
fl(x) ==
    IF x[1] = 0 THEN x
    ELSE
    LET a == Abs(x[1])
        d == x[2]
        lo == Pow2(FloatBits - 1)
        \* the exponent e with lo <= a / (d * 2^e) < 2 * lo
        Scaled(e) == IF e < 0 THEN <<a * Pow2(-e), d>> ELSE <<a, d * Pow2(e)>>
        e == CHOOSE e \in -12..12 :
                 /\ lo * Scaled(e)[2] <= Scaled(e)[1]
                 /\ Scaled(e)[1] < 2 * lo * Scaled(e)[2]
        num == Scaled(e)[1]
        den == Scaled(e)[2]
        q == num \div den
        r == num % den
        m == IF 2 * r < den THEN q
             ELSE IF 2 * r > den THEN q + 1
             ELSE IF q % 2 = 0 THEN q ELSE q + 1
        mag == IF e < 0 THEN R(m, Pow2(-e)) ELSE RInt(m * Pow2(e))
    IN  IF x[1] < 0 THEN <<-mag[1], mag[2]>> ELSE mag

\* the float sum or difference of two integer-valued floats (integer-valued
\* again: candles here have integer closes)
FlInt(i) == fl(RInt(i))[1]

\* lines 67-70 and 72-75: append, add, evict the oldest when over length
FWindowPush(q, s, close, n) ==
    LET q1 == Append(q, close)
        s1 == FlInt(s + close)
    IN  IF Len(q1) > n THEN [q |-> Tail(q1), s |-> FlInt(s1 - Head(q1))]
                       ELSE [q |-> q1, s |-> s1]

\* lines 77-78: sum / n when the window is full, else None
FWindowMa(w, n) == IF Len(w.q) = n THEN fl(R(w.s, n)) ELSE None

\* One iteration of the for loop of simulate_ma_cross in float arithmetic.
FloatMaStep(f, c, k) ==
    LET sw == FWindowPush(f.short_q, f.short_sum, c.close, k.ma_short)
        lw == FWindowPush(f.long_q, f.long_sum, c.close, k.ma_long)
        short_ma == FWindowMa(sw, k.ma_short)
        long_ma == FWindowMa(lw, k.ma_long)
        f1 == [f EXCEPT !.short_q = sw.q, !.short_sum = sw.s,
                        !.long_q = lw.q, !.long_sum = lw.s]
    IN  MaDecide(f1, c, k, IF short_ma = None \/ long_ma = None
                           THEN None ELSE fl(RSub(short_ma, long_ma)))

\* closes far enough apart for a sum to need more than FloatBits bits
FloatCloses == {1, 16}

FloatCandles == { CandlesOf(cl) : cl \in SeqsUpTo(FloatCloses, MaxLen) }

\* risk_pct 0: no order is made, cash stays InitialCash and the equity,
\* peak and drawdown of the iteration are computed without rounding
FloatCfgs ==
    { [engine |-> "ma", ma_short |-> w[1], ma_long |-> w[2],
       risk_pct |-> RZero, fee_rate |-> RZero, slippage_bps |-> 0] :
      w \in MaWindows }

InitSma == \E h \in FloatCandles, k \in FloatCfgs : InitCall(h, k)

FloatSimStep ==
    /\ simPc = "loop" /\ idx <= Len(ohlcv)
    /\ SetFrame(FloatMaStep(Frame, ohlcv[idx], cfg))
    /\ idx' = idx + 1
    /\ UNCHANGED <<hist, cfg, ohlcv, callNo, persisted, resume, simPc,
                   liveVars, pureVars>>

NextSma ==
    \/ FloatSimStep
    \/ SimReturn

SpecSma == InitSma /\ [][NextSma]_vars

\* sum(closes[i - n + 1 .. i]) / n, added up in floats from the oldest close
RECURSIVE FloatSum(_, _, _)
FloatSum(cs, from, to) ==
    IF from > to THEN 0
    ELSE FlInt(FloatSum(cs, from, to - 1) + cs[to].close)

Recomputed(cs, i, n) == fl(R(FloatSum(cs, i - n + 1, i), n))

\* the moving average the loop holds after candle idx - 1
RollingMa(q, s, n) == FWindowMa([q |-> q, s |-> s], n)

\* C32: after every candle the incrementally maintained short and long
\* moving averages equal the average recomputed over the last ma_short /
\* ma_long closes when the window is full, and are not ready (None) before.
C32_RollingEqualsRecomputed ==
    LET i == idx - 1
        Agrees(q, s, n) ==
            IF i >= n THEN RollingMa(q, s, n) = Recomputed(ohlcv, i, n)
            ELSE RollingMa(q, s, n) = None
    IN  i >= 1 => /\ Agrees(short_q, short_sum, cfg.ma_short)
                  /\ Agrees(long_q, long_sum, cfg.ma_long)

(***************************************************************************)
(* CCXTBroker: the clock-offset correction (brokers/ccxt_live.py)          *)
(*                                                                         *)
(* One instance and the calls a client makes on its public methods, in     *)
(* any order. bk_log holds the requests that reached the exchange; the     *)
(* repetitions of _retry_request are requests of the same kind and are     *)
(* logged once.                                                            *)
(***************************************************************************)

MaxBrokerLog == 4

Authenticated ==
    {"fetch_balance", "create_order", "fetch_order", "cancel_order",
     "fetch_my_trades", "fetch_open_orders"}

LoadAttempts == {"load_time_difference:ok", "load_time_difference:failed"}

\* _load_time_diff_once: ok is whether exchange.load_time_difference() returns
_load_time_diff_once(loaded, log, ok) ==
    IF loaded THEN [loaded |-> loaded, log |-> log]
    ELSE [loaded |-> ok,
          log |-> Append(log, IF ok THEN "load_time_difference:ok"
                              ELSE "load_time_difference:failed")]

\* __init__: time_diff_loaded = False, nothing sent yet
InitBroker ==
    /\ bk_time_diff_loaded = FALSE /\ bk_log = <<>>
    /\ SimOff /\ LiveOff /\ RetryOff /\ GuardOff /\ CoreOpsOff /\ BrokerRestOff

BrokerRoom == Len(bk_log) + 2 <= MaxBrokerLog

\* a method that only forwards to the exchange through _retry_request
Forward(request) ==
    /\ bk_log' = Append(bk_log, request)
    /\ UNCHANGED <<simVars, liveVars, retryVars, guardVars, coreOpsVars,
                   brokerRest, bk_time_diff_loaded>>

\* a method that calls _load_time_diff_once first
LoadThen(ok, requests) ==
    LET r == _load_time_diff_once(bk_time_diff_loaded, bk_log, ok)
    IN  /\ bk_time_diff_loaded' = r.loaded
        /\ bk_log' = r.log \o requests
        /\ UNCHANGED <<simVars, liveVars, retryVars, guardVars, coreOpsVars,
                       brokerRest>>

FetchTicker ==
    /\ BrokerRoom
    /\ Forward("fetch_ticker")

FetchOrderBook ==
    /\ BrokerRoom
    /\ Forward("fetch_order_book")

FetchBalance ==
    /\ BrokerRoom
    /\ \E ok \in BOOLEAN : LoadThen(ok, <<"fetch_balance">>)

\* a market order with allow_market off raises before anything is sent
BrokerCreateOrder ==
    /\ BrokerRoom
    /\ \E ok \in BOOLEAN, type \in {"market", "limit"}, allow_market \in BOOLEAN :
          LoadThen(ok, IF type = "market" /\ ~allow_market THEN <<>>
                       ELSE <<"create_order">>)

FetchOrder ==
    /\ BrokerRoom
    /\ Forward("fetch_order")

CancelOrder ==
    /\ BrokerRoom
    /\ Forward("cancel_order")

FetchMyTrades ==
    /\ BrokerRoom
    /\ Forward("fetch_my_trades")

FetchOpenOrders ==
    /\ BrokerRoom
    /\ Forward("fetch_open_orders")

NextBroker ==
    \/ FetchTicker
    \/ FetchOrderBook
    \/ FetchBalance
    \/ BrokerCreateOrder
    \/ FetchOrder
    \/ CancelOrder
    \/ FetchMyTrades
    \/ FetchOpenOrders

SpecBroker == InitBroker /\ [][NextBroker]_vars

SuccessfulLoads ==
    Cardinality({ i \in 1..Len(bk_log) : bk_log[i] = "load_time_difference:ok" })

\* C33: the time difference is loaded successfully at most once per
\* instance, and every authenticated request the instance sent comes after
\* an attempt to load it.
C33_ClockOffsetOnceAndFirst ==
    /\ SuccessfulLoads <= 1
    /\ \A i \in 1..Len(bk_log) :
          bk_log[i] \in Authenticated
          => \E j \in 1..(i - 1) : bk_log[j] \in LoadAttempts

(***************************************************************************)
(* TraderConfig: construction and the is_live_armed property (config.py)   *)
(***************************************************************************)

\* default of the dataclass field CONFIRM_REQUIRED (line 37)
ConfirmPhrase == "I_UNDERSTAND_LIVE_TRADING_RISK"

ConfirmStrings == {"", "yes", ConfirmPhrase}

\* an environment variable is unset (None) or holds a string <<v>>
EnvOf(S) == {None} \cup { <<v>> : v \in S }

ConfigArgs ==
    [trader_mode : Modes, dry_run : BOOLEAN,
     trader_live_confirm : ConfirmStrings]

ConfigEnvs ==
    [CONFIRM_REQUIRED : EnvOf({"yes"}),
     TRADER_MODE : EnvOf(Modes),
     TRADER_LIVE_CONFIRM : EnvOf(ConfirmStrings),
     DRY_RUN : EnvOf({"TRUE", "1", "false", "no"})]

\* str.lower() on the strings of the DRY_RUN variable
Lower(s) == IF s = "TRUE" THEN "true" ELSE s

\* lines 64-68: an environment variable named like the field overrides it
FromEnv(v, given) == IF v = None THEN given ELSE v[1]

\* the dataclass __init__ and __post_init__ (lines 35-99): the fields that
\* is_live_armed reads
TraderConfig(args, env) ==
    [CONFIRM_REQUIRED |-> FromEnv(env.CONFIRM_REQUIRED, ConfirmPhrase),
     trader_mode |-> FromEnv(env.TRADER_MODE, args.trader_mode),
     trader_live_confirm |->
         FromEnv(env.TRADER_LIVE_CONFIRM, args.trader_live_confirm),
     \* lines 92-95: a string is true when it is one of the four words
     dry_run |-> IF env.DRY_RUN = None THEN args.dry_run
                 ELSE Lower(env.DRY_RUN[1]) \in {"true", "1", "yes", "on"}]

\* the property is_live_armed of an instance (lines 131-138)
LiveArmedOf(c) ==
    is_live_armed([trader_mode |-> c.trader_mode, dry_run |-> c.dry_run,
                   trader_live_confirm_ok |->
                       c.trader_live_confirm = c.CONFIRM_REQUIRED])

InitConfig ==
    /\ cf_args \in ConfigArgs
    /\ cf_env \in ConfigEnvs
    /\ cf_config = None /\ cf_armed = None
    /\ SimOff /\ LiveOff /\ RetryOff /\ GuardOff /\ CoreOpsOff /\ ConfigRestOff

\* config = TraderConfig(...)
ConfigConstruct ==
    /\ cf_config = None
    /\ cf_config' = TraderConfig(cf_args, cf_env)
    /\ UNCHANGED <<simVars, liveVars, retryVars, guardVars, coreOpsVars,
                   configRest, cf_args, cf_env, cf_armed>>

\* config.is_live_armed
ConfigReadArmed ==
    /\ cf_config # None /\ cf_armed = None
    /\ cf_armed' = <<LiveArmedOf(cf_config)>>
    /\ UNCHANGED <<simVars, liveVars, retryVars, guardVars, coreOpsVars,
                   configRest, cf_args, cf_env, cf_config>>

NextConfig ==
    \/ ConfigConstruct
    \/ ConfigReadArmed

SpecConfig == InitConfig /\ [][NextConfig]_vars

\* C34: is_live_armed is true exactly when trader_mode is live, dry_run is
\* false and trader_live_confirm equals CONFIRM_REQUIRED; so it is false in
\* testnet and paper mode whatever the confirmation, and false in live mode
\* when dry_run is set or the confirmation differs.
C34_ArmedExactlyWhenLiveConfirmed ==
    cf_armed # None
    => LET c == cf_config
           confirmed == c.trader_live_confirm = c.CONFIRM_REQUIRED
       IN  /\ cf_armed[1] <=> (c.trader_mode = "live" /\ ~c.dry_run
                                  /\ confirmed)
           /\ c.trader_mode \in {"testnet", "paper"} => ~cf_armed[1]
           /\ (c.trader_mode = "live" /\ (c.dry_run \/ ~confirmed))
              => ~cf_armed[1]

\* an armed live configuration was read
C34_Witness ==
    /\ cf_armed = <<TRUE>>
    /\ cf_config.trader_live_confirm = ConfirmPhrase
    /\ cf_args.trader_mode = "live"

(***************************************************************************)
(* calculate_ma_cross_signal (strategies/ma_cross.py), the signal          *)
(* run_live_trade acts on                                                  *)
(***************************************************************************)

MaxSignalLen == 5

SignalResult(target, reason, diff) ==
    [target_position |-> target, reason |-> reason, prev_diff |-> diff]

\* the for loop from candle i on; w holds the rolling windows and prev_diff
RECURSIVE SignalLoop(_, _, _, _)
SignalLoop(cs, i, p, w) ==
    IF i > Len(cs) THEN SignalResult(-1, "no_signal", w.prev_diff)
    ELSE
    LET sw == WindowPush(w.short_q, w.short_sum, cs[i].close, p.ma_short)
        lw == WindowPush(w.long_q, w.long_sum, cs[i].close, p.ma_long)
        short_ma == WindowMa(sw, p.ma_short)
        long_ma == WindowMa(lw, p.ma_long)
        w1 == [w EXCEPT !.short_q = sw.q, !.short_sum = sw.s,
                        !.long_q = lw.q, !.long_sum = lw.s]
    IN  IF short_ma = None \/ long_ma = None
        THEN SignalLoop(cs, i + 1, p, w1)
        ELSE
        LET diff == RSub(short_ma, long_ma) IN
        IF w.prev_diff = None
        THEN SignalLoop(cs, i + 1, p, [w1 EXCEPT !.prev_diff = diff])
        ELSE IF crossed_up(w.prev_diff, diff)
        THEN SignalResult(1, "ma_cross_up", diff)
        ELSE IF crossed_down(w.prev_diff, diff)
        THEN SignalResult(0, "ma_cross_down", diff)
        ELSE SignalLoop(cs, i + 1, p, [w1 EXCEPT !.prev_diff = diff])

\* calculate_ma_cross_signal(ohlcv, ma_short, ma_long) with 0 < ma_short <
\* ma_long and prev_diff left at its default None
calculate_ma_cross_signal(cs, p) ==
    IF cs = <<>> THEN SignalResult(-1, "no_signal", None)
    ELSE SignalLoop(cs, 1, p,
                    [short_q |-> <<>>, short_sum |-> 0, long_q |-> <<>>,
                     long_sum |-> 0, prev_diff |-> None])

InitSignal ==
    /\ sg_ohlcv \in { CandlesOf(cl) : cl \in SeqsUpTo(Closes, MaxSignalLen) }
    /\ sg_params \in { [ma_short |-> w[1], ma_long |-> w[2]] : w \in MaWindows }
    /\ sg_result = None
    /\ SimOff /\ LiveOff /\ RetryOff /\ GuardOff /\ CoreOpsOff /\ SignalRestOff

\* run_live_trade.py line 86
SignalCall ==
    /\ sg_result = None
    /\ sg_result' = calculate_ma_cross_signal(sg_ohlcv, sg_params)
    /\ UNCHANGED <<simVars, liveVars, retryVars, guardVars, coreOpsVars,
                   signalRest, sg_ohlcv, sg_params>>

NextSignal ==
    \/ SignalCall

SpecSignal == InitSignal /\ [][NextSignal]_vars

RECURSIVE CloseSum(_, _, _)
CloseSum(cs, from, to) ==
    IF from > to THEN 0 ELSE CloseSum(cs, from, to - 1) + cs[to].close

\* short MA minus long MA at candle i, both over the closes up to i
MaDiffAt(cs, i, p) ==
    RSub(R(CloseSum(cs, i - p.ma_short + 1, i), p.ma_short),
         R(CloseSum(cs, i - p.ma_long + 1, i), p.ma_long))

\* the short MA crosses above the long MA at candle i
CrossUpAt(cs, i, p) ==
    /\ i > p.ma_long
    /\ RLe(MaDiffAt(cs, i - 1, p), RZero) /\ RLt(RZero, MaDiffAt(cs, i, p))

CrossDownAt(cs, i, p) ==
    /\ i > p.ma_long
    /\ RLe(RZero, MaDiffAt(cs, i - 1, p)) /\ RLt(MaDiffAt(cs, i, p), RZero)

\* C35: the signal returned is that of the last candle: target 1 with
\* ma_cross_up (0 with ma_cross_down) only when the short MA crosses above
\* (below) the long MA at the last candle, and -1 / no_signal when the last
\* candle is not a cross, whatever older candles were.
C35_SignalOfLastCandle ==
    sg_result # None
    => LET n == Len(sg_ohlcv)
           up == CrossUpAt(sg_ohlcv, n, sg_params)
           down == CrossDownAt(sg_ohlcv, n, sg_params)
       IN  /\ sg_result.target_position = 1
              => sg_result.reason = "ma_cross_up" /\ up
           /\ sg_result.target_position = 0
              => sg_result.reason = "ma_cross_down" /\ down
           /\ (~up /\ ~down)
              => /\ sg_result.target_position = -1
                 /\ sg_result.reason = "no_signal"

(***************************************************************************)
(* The order of the trades simulate_ma_cross makes from a flat state       *)
(***************************************************************************)

MaxLenTrades == 6

\* risk_pct 1 invests all the cash, risk_pct 1/2 leaves cash for a later BUY
TradeCfgs ==
    { [engine |-> "ma", ma_short |-> w[1], ma_long |-> w[2],
       risk_pct |-> r, fee_rate |-> RZero, slippage_bps |-> 0] :
      w \in MaWindows, r \in {ROne, R(1, 2)} }

InitTrades ==
    \E h \in MaCandles(0, MaxLenTrades), k \in TradeCfgs : InitCall(h, k)

NextTrades ==
    \/ SimStep
    \/ SimReturn

SpecTrades == InitTrades /\ [][NextTrades]_vars

\* C36 as stated: the sides alternate BUY, SELL, BUY, ...; a BUY is applied
\* only while no position is held, a SELL only while one is held, and every
\* SELL leaves pos_base = 0.
C36_StrictAlternation ==
    \A i \in 1..Len(new_trades) :
        LET t == new_trades[i]
        IN  /\ t.side = (IF i % 2 = 1 THEN "BUY" ELSE "SELL")
            /\ t.side = "BUY" => t.pos_base_after = t.qty
            /\ t.side = "SELL" => RLt(RZero, t.qty) /\ t.pos_base_after = RZero

\* C36 (amended): the first trade is a BUY and every SELL directly follows
\* a BUY; a SELL is applied only while a position is held and leaves
\* pos_base = 0; a BUY is applied only while cash_quote > 0, and adds to
\* the position, so BUYs may follow each other.
C36_SellsFollowBuys ==
    \A i \in 1..Len(new_trades) :
        LET t == new_trades[i]
        IN  /\ i = 1 => t.side = "BUY"
            /\ t.side = "SELL"
               => /\ RLt(RZero, t.qty) /\ t.pos_base_after = RZero
                  /\ i > 1 /\ new_trades[i - 1].side = "BUY"
            /\ t.side = "BUY"
               => /\ RLt(RZero, RAdd(t.cash_quote_after,
                                     RAdd(t.notional_quote, t.fee_quote)))
                  /\ RLe(t.qty, t.pos_base_after)

\* two BUYs in a row, then the SELL that closes the position
C36_Witness ==
    /\ simPc = "returned" /\ Len(new_trades) = 3
    /\ new_trades[1].side = "BUY" /\ new_trades[2].side = "BUY"
    /\ new_trades[3].side = "SELL"
    /\ state.pos_base = RZero

(***************************************************************************)
(* PaperBroker.create_order (brokers/paper.py)                             *)
(***************************************************************************)

MaxOrderCalls == 3

\* FEE_RATE = 0.0005 (config.py line 20)
FEE_RATE == R(1, 2000)

\* the arguments a client can pass: amount is any float
OrderAmounts == {-1, 1, 2}
OrderSides == {"buy", "sell", "hold"}
OrderTypes == {"market", "limit"}

\* the outcome of create_order(symbol, type, side, amount) in state st with
\* the ticker tk: the exception raised, or the new state and the order
create_order(st, tk, type, side, amt) ==
    IF type # "market"
    THEN [raised |-> "Unsupported order type", state |-> st, order |-> None]
    ELSE IF side \notin {"buy", "sell"}
    THEN [raised |-> "Invalid side", state |-> st, order |-> None]
    ELSE
    LET exec_price == IF side = "buy" THEN tk.ask ELSE tk.bid
        notional == RInt(amt * exec_price)
        fee == RMul(notional, FEE_RATE)
        order(st2) ==
            [id |-> st2.trades_total, type |-> type, side |-> side,
             amount |-> amt, price |-> exec_price, cost |-> notional,
             filled |-> amt, remaining |-> 0, status |-> "closed",
             fee |-> fee]
        done(st1) ==
            LET st2 == [st1 EXCEPT !.trades_total = @ + 1]
            IN  [raised |-> "", state |-> st2, order |-> order(st2)]
    IN  IF side = "buy"
        THEN IF RLt(st.cash_quote, RAdd(notional, fee))
             THEN [raised |-> "Insufficient funds", state |-> st,
                   order |-> None]
             ELSE done([st EXCEPT
                           !.cash_quote = RSub(@, RAdd(notional, fee)),
                           !.pos_base = RAdd(@, RInt(amt))])
        ELSE IF RLt(st.pos_base, RInt(amt))
             THEN [raised |-> "Insufficient position", state |-> st,
                   order |-> None]
             ELSE done([st EXCEPT
                           !.pos_base = RSub(@, RInt(amt)),
                           !.cash_quote = RAdd(@, RSub(notional, fee))])

\* PaperBroker(config, state_file) with no state file yet; the ticker is
\* the one set_ticker_price put in the cache
InitPaper ==
    /\ pb_state = [cash_quote |-> RInt(InitialCash), pos_base |-> RZero,
                   trades_total |-> 0]
    /\ pb_file = None
    /\ pb_ticker \in { [bid |-> 2, ask |-> 3], [bid |-> 4, ask |-> 5] }
    /\ pb_last = None /\ pb_calls = 0
    /\ SimOff /\ LiveOff /\ RetryOff /\ GuardOff /\ CoreOpsOff /\ PaperRestOff

\* one call of create_order; self.state.save() runs only when nothing raised
PaperCreateOrder ==
    /\ pb_calls < MaxOrderCalls
    /\ \E type \in OrderTypes, side \in OrderSides, amt \in OrderAmounts :
          LET r == create_order(pb_state, pb_ticker, type, side, amt)
          IN  /\ pb_state' = r.state
              /\ pb_file' = IF r.raised = "" THEN r.state ELSE pb_file
              /\ pb_last' = [type |-> type, side |-> side, amount |-> amt,
                             raised |-> r.raised, order |-> r.order,
                             state_before |-> pb_state,
                             file_before |-> pb_file]
    /\ pb_calls' = pb_calls + 1
    /\ UNCHANGED <<simVars, liveVars, retryVars, guardVars, coreOpsVars,
                   paperRest, pb_ticker>>

NextPaper ==
    \/ PaperCreateOrder

SpecPaper == InitPaper /\ [][NextPaper]_vars

\* C37: cash_quote >= 0 and pos_base >= 0 after any sequence of calls; a
\* call that raised left the state and the state file as they were; an
\* accepted order is closed, filled = amount, remaining = 0.
C37_PaperBalancesConsistent ==
    /\ RLe(RZero, pb_state.cash_quote) /\ RLe(RZero, pb_state.pos_base)
    /\ pb_last # None
       => IF pb_last.raised # ""
          THEN pb_state = pb_last.state_before /\ pb_file = pb_last.file_before
          ELSE /\ pb_last.order.status = "closed"
               /\ pb_last.order.filled = pb_last.amount
               /\ pb_last.order.remaining = 0

(***************************************************************************)
(* Properties of a dry run of run_live_trade                               *)
(***************************************************************************)

\* the rows of the Ledger orders file written in symbol cycle c
OrderRows(c) == SelectSeq(ledger_orders, LAMBDA r : r.cycle = c)

\* the cycle of symbol sym is past the execute block (lines 211-262)
Executed == pc = "final_balance" /\ action # "none"

\* C38: with dry_run set no order reaches a broker that could place it, a
\* decided action that was executed leaves exactly one order row, of status
\* DRY_RUN, and no trade row, and the position is the one the run started
\* with.
C38_DryRunPlacesNothing ==
    config # None /\ config.dry_run
    => /\ exch = <<>> /\ broker # "ccxt"
       /\ ~mutated_under_kill /\ ~mutated_after_fatal
       /\ Executed
          => /\ Len(OrderRows(sym)) = 1
             /\ OrderRows(sym)[1].status = "DRY_RUN"
             /\ ~order_placed
       /\ ledger_trades = {}
       /\ Position = init_pos

C38_Witness ==
    /\ config # None /\ config.dry_run
    /\ Executed /\ action = "sell"
    /\ Len(OrderRows(sym)) = 1

(***************************************************************************)
(* The run under a daily-loss lockout                                      *)
(*                                                                         *)
(* check_risk_limits tests the daily loss before it looks at the action    *)
(* (DailyLossExceeded is the first test of check_risk_limits), so under a  *)
(* lockout every call of the run is a denial: RiskGuard("deny").           *)
(***************************************************************************)

\* the cycle of symbol sym was denied and the denial branch is over
DenialHandled == risk_ok = "denied" /\ pc \notin {"risk", "blocked_risk"}

MaxHistData == 4       \* longest data file of the symbol
MaxRuns == 3           \* runs of run_paper_sim_yahoo started

HistSymbol == "^N225"

HistCfg ==
    [engine |-> "ma", ma_short |-> 1, ma_long |-> 2,
     risk_pct |-> ROne, fee_rate |-> RZero, slippage_bps |-> 0]

\* lines 225-242: the csv row of a trade of this run
HistRow(t) ==
    [symbol |-> HistSymbol, time_ms |-> t.time_ms, side |-> t.side,
     price |-> t.price, qty |-> t.qty]

HistRowsOf(trades) == [i \in 1..Len(trades) |-> HistRow(trades[i])]

\* lines 98, 109-131: the symbol state of the state file, or the default
\* of load_state when there is no file
HistLoaded == IF hh_state_file = None THEN FreshState ELSE hh_state_file[1]

HistMaxDate == IF hh_data = <<>> THEN 0 ELSE hh_data[Len(hh_data)].ts

InitHistory ==
    /\ hh_data \in MaCandles(0, 2)
    /\ hh_state_file = None /\ hh_history = <<>> /\ hh_latest = <<>>
    /\ hh_mem = None /\ hh_rows = <<>>
    /\ hh_pc = "idle" /\ hh_runs = 0
    /\ SimOff /\ LiveOff /\ RetryOff /\ GuardOff /\ CoreOpsOff
    /\ HistoryRestOff

\* the data file gains the next daily candle between two runs
HistGrow(ext) ==
    /\ hh_pc = "idle"
    /\ Len(hh_data) < MaxHistData
    /\ Len(ext) = 1
    /\ hh_data' = hh_data \o ext
    /\ UNCHANGED <<simVars, liveVars, retryVars, guardVars, coreOpsVars,
                   historyRest, hh_state_file, hh_history, hh_latest, hh_mem,
                   hh_rows, hh_runs, hh_pc>>

\* lines 98-203: a run starts: the state is loaded and checked against the
\* data, and simulate_ma_cross_yahoo is called. A run without data writes
\* an empty latest csv and returns 1 (lines 164-176).
HistStart ==
    /\ hh_pc = "idle"
    /\ hh_runs < MaxRuns
    /\ hh_runs' = hh_runs + 1
    /\ IF hh_data = <<>>
       THEN /\ hh_latest' = <<>>
            /\ UNCHANGED <<simVars, hh_pc>>
       ELSE /\ StartCall(hh_data,
                         IF FutureDated(HistLoaded, HistMaxDate)
                         THEN ResetState(HistLoaded) ELSE HistLoaded)
            /\ cfg' = HistCfg
            /\ hh_pc' = "simulate"
            /\ UNCHANGED <<hist, callNo, persisted, resume, hh_latest>>
    /\ UNCHANGED <<liveVars, retryVars, guardVars, coreOpsVars,
                   historyRest, hh_data, hh_state_file, hh_history, hh_mem,
                   hh_rows>>

\* lines 205-253: the call has returned. Without an equity curve the run
\* writes an empty latest csv and returns 1; otherwise the rows and the
\* symbol state are built in memory.
HistCollect ==
    /\ hh_pc = "simulate" /\ simPc = "done"
    /\ IF equity_curve = <<>>
       THEN /\ hh_latest' = <<>>
            /\ hh_pc' = "idle"
            /\ UNCHANGED <<hh_mem, hh_rows>>
       ELSE /\ hh_mem' = <<state>>
            /\ hh_rows' = HistRowsOf(new_trades)
            /\ hh_pc' = "write"
            /\ UNCHANGED hh_latest
    /\ UNCHANGED <<simVars, liveVars, retryVars, guardVars, coreOpsVars,
                   historyRest, hh_data, hh_state_file, hh_history, hh_runs>>

\* lines 275-276: write_csv(latest_csv, latest_rows) and
\* append_history(hist_csv, latest_rows)
HistAppend ==
    /\ hh_pc = "write"
    /\ hh_latest' = hh_rows
    /\ hh_history' = hh_history \o hh_rows
    /\ hh_pc' = "save"
    /\ UNCHANGED <<simVars, liveVars, retryVars, guardVars, coreOpsVars,
                   historyRest, hh_data, hh_state_file, hh_mem, hh_rows,
                   hh_runs>>

\* lines 278-292: the summary is written and save_state writes the state
HistSave ==
    /\ hh_pc = "save"
    /\ hh_state_file' = hh_mem
    /\ hh_mem' = None /\ hh_rows' = <<>>
    /\ hh_pc' = "idle"
    /\ UNCHANGED <<simVars, liveVars, retryVars, guardVars, coreOpsVars,
                   historyRest, hh_data, hh_history, hh_latest, hh_runs>>

\* the process is killed between two of its file writes: what it held in
\* memory is gone, the files stay as they are
HistInterrupt ==
    /\ hh_pc \in {"write", "save"}
    /\ hh_mem' = None /\ hh_rows' = <<>>
    /\ hh_pc' = "idle"
    /\ UNCHANGED <<simVars, liveVars, retryVars, guardVars, coreOpsVars,
                   historyRest, hh_data, hh_state_file, hh_history,
                   hh_latest, hh_runs>>

NextHistory ==
    \/ \E ext \in MaCandles(Len(hh_data), 1) : HistGrow(ext)
    \/ HistStart
    \/ SimStep
    \/ SimReturn
    \/ HistCollect
    \/ HistAppend
    \/ HistSave
    \/ HistInterrupt

SpecHistory == InitHistory /\ [][NextHistory]_vars

\* trades_total of the symbol in the state file
PersistedTradesTotal ==
    IF hh_state_file = None THEN 0 ELSE hh_state_file[1].trades_total

\* C40: between runs of run_paper_sim_yahoo, also after a run that was
\* interrupted after append_history and before save_state, every trade
\* (symbol, time_ms, side) is in the history file at most once, and the
\* persisted trades_total is the number of history rows of the symbol.
C40_HistoryRowsOnce ==
    hh_pc = "idle"
    => /\ \A i, j \in 1..Len(hh_history) :
              i < j => <<hh_history[i].symbol, hh_history[i].time_ms,
                         hh_history[i].side>>
                       # <<hh_history[j].symbol, hh_history[j].time_ms,
                           hh_history[j].side>>
       /\ PersistedTradesTotal = Len(hh_history)

====
